---- MODULE Spec2Model ----
(***************************************************************************)
(* Model of the adaptive browser-automation loop of ManusAI:               *)
(*   src/agent.py            Agent.process_request, _display_browser_plan, *)
(*                           _execute_browser_actions, _check_goal_completion *)
(*   src/browser_executor.py BrowserExecutor.initialize, close,            *)
(*                           capture_page_state, analyze_page_for_next_action, *)
(*                           execute_action                                *)
(*   src/utils.py            get_ai_page_analysis                          *)
(*   src/terminal_executor.py TerminalExecutor.execute, _is_dangerous      *)
(*                                                                         *)
(* One goal run is a coroutine; every await on the browser, the oracle or  *)
(* the console is a step of the run.  The browser, the page oracle and     *)
(* the user are the environment: their answers are drawn with \E.          *)
(*                                                                         *)
(* Specifications:                                                         *)
(*   Spec, FairSpec  the Agent's goal runs; the executor is seen through   *)
(*                   what its calls return, the browser behind it is not   *)
(*                   followed (browserVars stay as they are)               *)
(*   ExecSpec        BrowserExecutor.execute_action and close on their     *)
(*                   own, with the browser operations, page.url and the    *)
(*                   launched browsers                                     *)
(*   AdapterSpec     analyze_page_for_next_action with get_ai_page_analysis *)
(*   RequestSpec     process_request up to the initial action list         *)
(*   HeurSpec        _check_goal_completion                                *)
(*   NormSpec        the conversion of an oracle reply into an action dict *)
(*   CleanSpec       BrowserExecutor._clean_search_query                   *)
(*   InputSpec       the selector chain of an input action without selector *)
(*   TermSpec        TerminalExecutor.execute                              *)
(***************************************************************************)
EXTENDS Integers, Sequences, FiniteSets, TLC

VARIABLES
    pc,                \* position of the Agent in process_request / the run
    browser_executor,  \* Agent.browser_executor: "None" or "BrowserExecutor"
    is_initialized,    \* BrowserExecutor.is_initialized
    browser_plan,      \* the initial action list of the run
    results,           \* results            (agent.py:365)
    executed_actions,  \* executed_actions   (agent.py:366)
    action_count,      \* action_count       (agent.py:384)
    next_action,       \* next_action        (agent.py:396)
    stop,              \* the console message with which the loop was left
    ret,               \* value returned by _display_browser_plan
    response,          \* value returned by process_request
    exec_call,         \* the last call of execute_action and its outcome
    oracle_calls,      \* calls of analyze_page_for_next_action in this run
    final_captures,    \* final snapshots captured in this run (agent.py:428)
    choice_presented,  \* "Keep the browser open?" was asked in this run
    close_calls,       \* calls of BrowserExecutor.close in this run
    session_up,        \* the session was initialized at some point of the run
    current_url,       \* page.url of the executor's page
    live_browsers,     \* browser processes launched and not closed
    ops,               \* browser operations of the last executor call, in order
    input,             \* argument of the function under study
    output,            \* its result
    confirmation       \* the answer to "Execute this plan? (y/n)" (agent.py:280)

\* the browser behind the executor
browserVars == <<current_url, live_browsers, ops>>

\* argument and result of a function studied on its own
fnVars == <<input, output>>

\* what the user typed at the console
consoleVars == <<confirmation>>

\* the Agent and its run
agentVars == <<pc, browser_executor, is_initialized, browser_plan, results,
               executed_actions, action_count, next_action, stop, ret,
               response, exec_call, oracle_calls, final_captures,
               choice_presented, close_calls, session_up>>

vars == <<pc, browser_executor, is_initialized, browser_plan, results,
          executed_actions, action_count, next_action, stop, ret, response,
          exec_call, oracle_calls, final_captures, choice_presented,
          close_calls, session_up, current_url, live_browsers, ops,
          input, output, confirmation>>

---------------------------------------------------------------------------
(* Bounds of the model *)

\* the oracle chooses freely for its first MaxOracleFree suggestions of a
\* run and repeats its last suggestion afterwards
MaxOracleFree == 3

\* the longest list of executed actions the goal heuristic is studied on
MaxLen == 6

\* the most browsers a failed initialize may leave behind before the model
\* stops failing it after the launch
MaxLeaked == 1

---------------------------------------------------------------------------
(* Values *)

\* Python's None as the value of a dict entry (JSON null): not a str
PyNone == "<None>"

IsStr(v) == v # PyNone

\* str.lower() on the action types of the model
Lower(s) == IF s = "Click" THEN "click" ELSE s

\* the action kinds execute_action dispatches on (browser_executor.py:1297-1500)
KnownKinds == {"navigate", "click", "input", "scroll", "wait", "search",
               "capture_state"}

\* max_actions = 20 (agent.py:385)
max_actions == 20

NoAction == [action_type |-> "", target |-> "", description |-> ""]

Act(t, tg, d) == [action_type |-> t, target |-> tg, description |-> d]

\* the direction and distance of the fallback scroll, and the defaults of a
\* scroll that names neither (browser_executor.py:1424-1425, utils.py:227-228)
DefaultScroll == "down/500"

\* action.get('direction', 'down') and action.get('distance', 500) of a
\* scroll, whose target holds both when the action names them
\* (browser_executor.py:1424-1427)
EffectiveScrollOf(action) ==
    IF action.target = "" THEN DefaultScroll ELSE action.target

\* the fallback action of analyze_page_for_next_action
\* (browser_executor.py:1093-1098)
FallbackAction == Act("scroll", DefaultScroll, "Scroll down to see more content (fallback action)")

\* the fallback actions of get_ai_page_analysis (utils.py:240-256)
FallbackAfterParseError ==
    Act("scroll", DefaultScroll, "Scroll down to see more content (fallback action after JSON parse error)")

FallbackAfterException ==
    Act("scroll", DefaultScroll, "Scroll down to see more content (fallback action after exception)")

\* a key that a JSON object or an action dict does not hold
Absent == "<absent>"

\* initial action lists handed to _display_browser_plan by process_request:
\* _extract_browser_actions keeps every dict that has an action_type key,
\* whatever its value (agent.py:829)
Plans == { <<Act("navigate", "url", "plan")>>,
           <<Act("navigate", "url", "plan"), Act("click", "sel", "plan")>>,
           <<Act("hover", "", "plan"), Act("navigate", "url", "plan")>>,
           <<Act(PyNone, "", "plan")>> }

\* actions get_ai_page_analysis can hand back (utils.py:190-236): the
\* action_type of the oracle's reply is copied as it is, a string of any
\* content or null
OracleActions == { Act("click", "text", "oracle"),
                   Act("scroll", DefaultScroll, "oracle"),
                   Act("capture_state", "", "oracle"),
                   Act("hover", "", "oracle"),
                   Act(PyNone, "", "oracle"),
                   FallbackAction }

---------------------------------------------------------------------------
(* BrowserExecutor *)

InitFailure == "Failed to initialize browser."

\* BrowserExecutor.initialize (browser_executor.py:139-345): ok is whether
\* playwright, the browser, the context and the page all started
initialize(initialized, ok) ==
    IF ~initialized
    THEN IF ok THEN [ret |-> TRUE,  is_initialized |-> TRUE]
               ELSE [ret |-> FALSE, is_initialized |-> FALSE]
    ELSE [ret |-> TRUE, is_initialized |-> initialized]

\* BrowserExecutor.close (browser_executor.py:409-419): ok is whether
\* context.close, browser.close and playwright.stop all succeeded
close(initialized, ok) ==
    IF initialized /\ ok THEN FALSE ELSE initialized

\* BrowserExecutor.capture_page_state (browser_executor.py:885-1000)
capture_page_state(initialized, init_ok, page_ok) ==
    LET i == IF ~initialized THEN initialize(initialized, init_ok)
             ELSE [ret |-> TRUE, is_initialized |-> initialized]
    IN  IF ~i.ret THEN [state |-> "None", is_initialized |-> i.is_initialized]
        ELSE IF page_ok THEN [state |-> "PageState", is_initialized |-> i.is_initialized]
        ELSE [state |-> "None", is_initialized |-> i.is_initialized]

\* how a call of initialize on a closed session ends: it succeeds, it fails
\* before chromium.launch returned, or it fails after the launch
InitOutcomes == {"ok", "early", "late"}

\* the browsers initialize launches (browser_executor.py:141-200): none on an
\* initialized session, one as soon as chromium.launch returned
Launches(initialized, init) ==
    IF ~initialized /\ init \in {"ok", "late"} THEN 1 ELSE 0

\* the browsers close shuts (browser_executor.py:411-416): ok is whether
\* context.close, browser.close and playwright.stop all succeeded; when
\* context.close raises, browser.close is not reached
Closes(initialized, ok) ==
    IF initialized /\ ok THEN 1 ELSE 0

\* the addresses page.url is told apart by: the blank page of a new session,
\* a page that is no search engine, the website a search action names, and
\* a search engine (browser_executor.py:1473-1474)
SearchEngines == {"google"}

\* one browser operation: what was done, on what, with page.url at its
\* start, and whether it succeeded
Op(op, arg, at, ok) == [op |-> op, arg |-> arg, at |-> at, ok |-> ok]

\* page.url after navigate(url) (browser_executor.py:435-448)
AfterGoto(at, url, nav_ok) == IF nav_ok THEN url ELSE at

\* BrowserExecutor.search (browser_executor.py:450-722): the search box is
\* found and filled, or the search URL of the site is opened directly
SearchOk(at, nav_ok, found) ==
    found \/ (at \in SearchEngines /\ nav_ok)

\* a search that always opens the default search engine first
BrowserOps_google(action, at, nav_ok, found, op_ok) ==
    IF Lower(action.action_type) = "search"
    THEN [trace |-> << Op("goto", "google", at, nav_ok),
                       Op("search", "query", AfterGoto(at, "google", nav_ok),
                          SearchOk(AfterGoto(at, "google", nav_ok), nav_ok, found)) >>,
          url |-> AfterGoto(at, "google", nav_ok)]
    ELSE [trace |-> <<>>, url |-> at]

\* the browser operations of execute_action for an action whose action_type
\* is a string, in their order, and page.url after them
\* (browser_executor.py:1297-1500); at is page.url at the start, nav_ok
\* whether page.goto succeeds, found whether the element looked for is
\* visible, op_ok whether the page accepts the input or the scroll
BrowserOps(action, at, nav_ok, found, op_ok) ==
    LET t == Lower(action.action_type)
    IN CASE t = "navigate" /\ action.target # "" ->
              [trace |-> << Op("goto", "site", at, nav_ok) >>,
               url |-> AfterGoto(at, "site", nav_ok)]
         [] t = "click" /\ action.target \in {"sel", "sel+text"} ->
              [trace |-> << Op("click", "selector", at, found) >>, url |-> at]
         [] t = "click" /\ action.target = "text" ->
              [trace |-> << Op("click_element_by_text", "text", at, found) >>,
               url |-> at]
         [] t = "input" /\ action.target # "" ->
              [trace |-> << Op("fill_input", "selector", at, found /\ op_ok) >>,
               url |-> at]
         [] t = "input" /\ action.target = "" ->
              IF found
              THEN [trace |-> << Op("wait_for_selector", "search box", at, TRUE),
                                 Op("fill_input", "search box", at, op_ok) >>,
                    url |-> at]
              ELSE [trace |-> << Op("wait_for_selector", "search box", at, FALSE) >>,
                    url |-> at]
         [] t = "scroll" ->
              [trace |-> << Op("scroll", EffectiveScrollOf(action), at, op_ok) >>,
               url |-> at]
         [] t = "search" /\ action.target = "website" ->
              LET u == AfterGoto(at, "website", nav_ok)
              IN [trace |-> << Op("goto", "website", at, nav_ok),
                               Op("search", "query", u, SearchOk(u, nav_ok, found)) >>,
                  url |-> u]
         [] t = "search" /\ action.target # "website" /\ at \in SearchEngines ->
              [trace |-> << Op("search", "query", at, SearchOk(at, nav_ok, found)) >>,
               url |-> at]
         [] t = "search" /\ action.target # "website" /\ at \notin SearchEngines ->
              LET u == AfterGoto(at, "google", nav_ok)
              IN [trace |-> << Op("goto", "google", at, nav_ok),
                               Op("search", "query", u, SearchOk(u, nav_ok, found)) >>,
                  url |-> u]
         [] OTHER -> [trace |-> <<>>, url |-> at]

UnknownActionType == "Error: Unknown action type"

\* the result strings of execute_action that report no browser operation
ErrorResults == {"Error: No URL provided for navigation",
                 "Error: No selector or text provided for click action",
                 "Error: Could not find a search box to fill",
                 UnknownActionType}

\* the dispatch of execute_action on the lowered action type
\* (browser_executor.py:1297-1505); found is whether the page shows the
\* element the action looks for, which the result depends on only for an
\* input without selector (browser_executor.py:1345-1400)
Dispatch(t, action, found) ==
    CASE t = "navigate" ->
           IF action.target # "" THEN "Navigated to: url"
           ELSE "Error: No URL provided for navigation"
      [] t = "click" ->
           IF action.target # "" THEN "Clicked element"
           ELSE "Error: No selector or text provided for click action"
      [] t = "input" ->
           IF action.target # "" THEN "Filled input"
           ELSE IF found THEN "Filled search box"
           ELSE "Error: Could not find a search box to fill"
      [] t = "scroll" -> "Scrolled"
      [] t = "wait" -> "Waited"
      [] t = "search" -> "Searched"
      [] t = "capture_state" -> "Captured current page state"
      [] OTHER -> UnknownActionType

\* execute_action without the return on a failed initialize
execute_action_noinit(action, initialized, init_ok, found) ==
    LET i == IF ~initialized THEN initialize(initialized, init_ok)
             ELSE [ret |-> TRUE, is_initialized |-> initialized]
    IN  IF ~IsStr(action.action_type)
        THEN [raised |-> TRUE, result |-> "AttributeError",
              is_initialized |-> i.is_initialized, ops |-> FALSE,
              before_shot |-> FALSE]
        ELSE LET t == Lower(action.action_type)
             IN [raised |-> FALSE, result |-> Dispatch(t, action, found),
                 is_initialized |-> i.is_initialized,
                 ops |-> Dispatch(t, action, found) \notin ErrorResults,
                 \* the screenshot before the action, in a try of its own
                 \* (browser_executor.py:1289-1295)
                 before_shot |-> TRUE]

\* BrowserExecutor.execute_action (browser_executor.py:1273-1511)
execute_action(action, initialized, init_ok, found) ==
    LET i == IF ~initialized THEN initialize(initialized, init_ok)
             ELSE [ret |-> TRUE, is_initialized |-> initialized]
    IN  IF ~i.ret
        THEN [raised |-> FALSE, result |-> InitFailure,
              is_initialized |-> i.is_initialized, ops |-> FALSE,
              before_shot |-> FALSE]
        ELSE IF ~IsStr(action.action_type)
        \* action.get('action_type', '').lower() is outside the try block
        THEN [raised |-> TRUE, result |-> "AttributeError",
              is_initialized |-> i.is_initialized, ops |-> FALSE,
              before_shot |-> FALSE]
        ELSE LET t == Lower(action.action_type)
             IN [raised |-> FALSE, result |-> Dispatch(t, action, found),
                 is_initialized |-> i.is_initialized,
                 ops |-> Dispatch(t, action, found) \notin ErrorResults,
                 \* the screenshot before the action, in a try of its own
                 \* (browser_executor.py:1289-1295)
                 before_shot |-> TRUE]

---------------------------------------------------------------------------
(* Agent *)

RECURSIVE Count(_, _)
\* list.count(t) over the action types of a list of actions
Count(t, s) ==
    IF s = <<>> THEN 0
    ELSE (IF s[1].action_type = t THEN 1 ELSE 0) + Count(t, Tail(s))

\* s[-n:]
LastN(s, n) == IF Len(s) <= n THEN s ELSE SubSeq(s, Len(s) - n + 1, Len(s))

\* the heuristic with its length threshold one too high
_check_goal_completion_six(actions) ==
    /\ Len(actions) >= 6
    /\ \/ /\ Count("click", actions) >= 2
          /\ actions[Len(actions)].action_type = "capture_state"
       \/ /\ Count("scroll", actions) >= 3
          /\ Count("click", LastN(actions, 3)) = 0

\* Agent._check_goal_completion (agent.py:527-553)
_check_goal_completion(actions) ==
    /\ Len(actions) >= 5
    /\ \/ /\ Count("click", actions) >= 2
          /\ actions[Len(actions)].action_type = "capture_state"
       \/ /\ Count("scroll", actions) >= 3
          /\ Count("click", LastN(actions, 3)) = 0

\* a loop condition that is two steps late
LoopCondition_late(count) == count < max_actions + 2

\* the condition of the adaptive loop (agent.py:387)
LoopCondition(count) == count < max_actions

\* record of one call of execute_action: the action, the session before and
\* after it, and how the call ended
NoCall == [action |-> NoAction, was_initialized |-> FALSE,
           now_initialized |-> FALSE, raised |-> FALSE,
           result |-> "", ops |-> FALSE, before_shot |-> FALSE]

Call(action, was_init, r) ==
    [action |-> action, was_initialized |-> was_init,
     now_initialized |-> r.is_initialized, raised |-> r.raised,
     result |-> r.result, ops |-> r.ops, before_shot |-> r.before_shot]

CaptureFailed == "Error capturing page state. Stopping execution."
NoSuggestion  == "No further actions suggested. Stopping execution."
GoalCompleted == "Goal appears to be completed. Stopping execution."
LimitReached  == "Reached maximum number of actions. Stopping execution."
Cancelled     == "Browser automation cancelled."
Report        == "Browser Automation Results"
ErrorReport   == "Error executing browser actions"
Completed     == "Browser automation completed."

Init ==
    /\ pc = "idle"
    /\ browser_executor = "None"
    /\ is_initialized = FALSE
    /\ browser_plan = <<>>
    /\ results = <<>>
    /\ executed_actions = <<>>
    /\ action_count = 0
    /\ next_action = NoAction
    /\ stop = ""
    /\ ret = ""
    /\ response = ""
    /\ exec_call = NoCall
    /\ oracle_calls = 0
    /\ final_captures = 0
    /\ choice_presented = FALSE
    /\ close_calls = 0
    /\ session_up = FALSE
    /\ current_url = "about:blank"
    /\ live_browsers = 0
    /\ ops = <<>>
    /\ input = <<>>
    /\ output = <<>>
    /\ confirmation = ""

\* process_request up to the plan confirmation (agent.py:160-171, 266-280):
\* a request whose commands hold at least one browser action
Request(plan) ==
    /\ pc = "idle"
    /\ UNCHANGED <<browserVars, fnVars>>
    /\ confirmation' = ""
    /\ pc' = "confirm"
    /\ browser_plan' = plan
    /\ results' = <<>>
    /\ executed_actions' = <<>>
    /\ action_count' = 0
    /\ next_action' = NoAction
    /\ stop' = ""
    /\ ret' = ""
    /\ response' = ""
    /\ exec_call' = NoCall
    /\ oracle_calls' = 0
    /\ final_captures' = 0
    /\ choice_presented' = FALSE
    /\ close_calls' = 0
    /\ session_up' = is_initialized
    /\ UNCHANGED <<browser_executor, is_initialized>>

\* a plan display that starts the run whatever the user answers
Confirm_any(answer) ==
    /\ pc = "confirm"
    /\ UNCHANGED <<browserVars, fnVars>>
    /\ confirmation' = answer
    /\ IF FALSE
       THEN /\ ret' = Cancelled
            /\ pc' = "respond"
       ELSE /\ ret' = ret
            /\ pc' = "start"
    /\ UNCHANGED <<browser_executor, is_initialized, browser_plan, results,
                   executed_actions, action_count, next_action, stop,
                   response, exec_call, oracle_calls, final_captures,
                   choice_presented, close_calls, session_up>>

\* _display_browser_plan: "Execute this plan? (y/n)" (agent.py:280-286)
Confirm(answer) ==
    /\ pc = "confirm"
    /\ UNCHANGED <<browserVars, fnVars>>
    /\ confirmation' = answer
    /\ IF answer # "y"
       THEN /\ ret' = Cancelled
            /\ pc' = "respond"
       ELSE /\ ret' = ret
            /\ pc' = "start"
    /\ UNCHANGED <<browser_executor, is_initialized, browser_plan, results,
                   executed_actions, action_count, next_action, stop,
                   response, exec_call, oracle_calls, final_captures,
                   choice_presented, close_calls, session_up>>

\* _execute_browser_actions: creation of the executor (agent.py:359-366)
Start(init_ok) ==
    /\ pc = "start"
    /\ UNCHANGED <<browserVars, fnVars, consoleVars>>
    /\ IF browser_executor = "None"
       THEN LET i == initialize(FALSE, init_ok)
            IN /\ browser_executor' = "BrowserExecutor"
               /\ is_initialized' = i.is_initialized
               /\ session_up' = i.is_initialized
               /\ IF ~i.ret
                  THEN /\ ret' = InitFailure
                       /\ pc' = "respond"
                  ELSE /\ ret' = ret
                       /\ pc' = "entry"
       ELSE /\ pc' = "entry"
            /\ UNCHANGED <<browser_executor, is_initialized, session_up, ret>>
    /\ UNCHANGED <<browser_plan, results, executed_actions, action_count,
                   next_action, stop, response, exec_call, oracle_calls,
                   final_captures, choice_presented, close_calls>>

\* an entry step that executes the last action of the initial list
Entry_last(init_ok) ==
    /\ pc = "entry"
    /\ UNCHANGED <<browserVars, fnVars, consoleVars>>
    /\ \E found \in BOOLEAN :
       LET initial_action == browser_plan[Len(browser_plan)]
           r == execute_action(initial_action, is_initialized, init_ok, found)
       IN /\ exec_call' = Call(initial_action, is_initialized, r)
          /\ is_initialized' = r.is_initialized
          /\ session_up' = (session_up \/ r.is_initialized)
          /\ IF r.raised
             THEN /\ pc' = "except"
                  /\ UNCHANGED <<results, executed_actions, action_count>>
             ELSE /\ results' = Append(results, r.result)
                  /\ executed_actions' = Append(executed_actions, initial_action)
                  /\ action_count' = 1
                  /\ pc' = "loop"
    /\ UNCHANGED <<browser_executor, browser_plan, next_action, stop, ret,
                   response, oracle_calls, final_captures, choice_presented,
                   close_calls>>

\* execution of browser_plan[0] (agent.py:369-385)
Entry(init_ok) ==
    /\ pc = "entry"
    /\ UNCHANGED <<browserVars, fnVars, consoleVars>>
    /\ \E found \in BOOLEAN :
       LET initial_action == browser_plan[1]
           r == execute_action(initial_action, is_initialized, init_ok, found)
       IN /\ exec_call' = Call(initial_action, is_initialized, r)
          /\ is_initialized' = r.is_initialized
          /\ session_up' = (session_up \/ r.is_initialized)
          /\ IF r.raised
             THEN /\ pc' = "except"
                  /\ UNCHANGED <<results, executed_actions, action_count>>
             ELSE /\ results' = Append(results, r.result)
                  /\ executed_actions' = Append(executed_actions, initial_action)
                  /\ action_count' = 1
                  /\ pc' = "loop"
    /\ UNCHANGED <<browser_executor, browser_plan, next_action, stop, ret,
                   response, oracle_calls, final_captures, choice_presented,
                   close_calls>>

\* a cycle head that reports the failed capture but does not leave the loop
Capture_nobreak(init_ok, page_ok) ==
    /\ pc = "loop"
    /\ UNCHANGED <<browserVars, fnVars, consoleVars>>
    /\ IF LoopCondition(action_count)
       THEN LET c == capture_page_state(is_initialized, init_ok, page_ok)
            IN /\ is_initialized' = c.is_initialized
               /\ session_up' = (session_up \/ c.is_initialized)
               /\ stop' = IF c.state = "None" THEN CaptureFailed ELSE stop
               /\ pc' = "analyze"
       ELSE /\ stop' = LimitReached
            /\ pc' = "final"
            /\ UNCHANGED <<is_initialized, session_up>>
    /\ UNCHANGED <<browser_executor, browser_plan, results, executed_actions,
                   action_count, next_action, ret, response, exec_call,
                   oracle_calls, final_captures, choice_presented, close_calls>>

\* head of a cycle: loop condition and snapshot capture (agent.py:387-393,
\* 424-425)
Capture(init_ok, page_ok) ==
    /\ pc = "loop"
    /\ UNCHANGED <<browserVars, fnVars, consoleVars>>
    /\ IF LoopCondition(action_count)
       THEN LET c == capture_page_state(is_initialized, init_ok, page_ok)
            IN /\ is_initialized' = c.is_initialized
               /\ session_up' = (session_up \/ c.is_initialized)
               /\ IF c.state = "None"
                  THEN /\ stop' = CaptureFailed
                       /\ pc' = "final"
                  ELSE /\ stop' = stop
                       /\ pc' = "analyze"
       ELSE /\ stop' = LimitReached
            /\ pc' = "final"
            /\ UNCHANGED <<is_initialized, session_up>>
    /\ UNCHANGED <<browser_executor, browser_plan, results, executed_actions,
                   action_count, next_action, ret, response, exec_call,
                   oracle_calls, final_captures, choice_presented, close_calls>>

\* BrowserExecutor.analyze_page_for_next_action (browser_executor.py:1002-1110):
\* suggestion is what get_ai_page_analysis returns for the page
\* what the PageOracle does on one call: the API call raises (error or
\* timeout), the content is not JSON, or the content is a JSON object
OracleReplies ==
    [kind : {"reply"},
     action_type : {Absent, PyNone, "click", "input", "scroll", "wait",
                    "navigate", "hover"},
     selector_strategy : {Absent, "id", "xpath", "text"},
     value : {Absent, "v"},
     description : {Absent, "oracle"}]

OracleFailures ==
    [kind : {"raise", "unparseable"}, action_type : {Absent},
     selector_strategy : {Absent}, value : {Absent}, description : {Absent}]

OracleBehaviours == OracleReplies \cup OracleFailures

\* dict.get(key, default) on a key of the oracle's reply
Get(v, default) == IF v = Absent THEN default ELSE v

\* the action-specific parameters of the converted action (utils.py:196-234),
\* chosen on the reply's own action_type
ConvertedTarget(reply) ==
    LET selector_value == Get(reply.value, "")
    IN CASE reply.action_type = "click" ->
              LET strategy == Get(reply.selector_strategy, "text")
              IN IF strategy = "id" THEN "sel"
                 ELSE IF strategy = "xpath"
                      THEN (IF selector_value = "" THEN "" ELSE "sel")
                 ELSE (IF selector_value = "" THEN "" ELSE "text")
         [] reply.action_type = "input" -> "sel"
         [] reply.action_type = "scroll" -> Get(reply.value, DefaultScroll)
         [] reply.action_type = "navigate" ->
              IF selector_value = "" THEN "" ELSE "url"
         [] OTHER -> ""

\* the conversion with a default kind of wait
get_ai_page_analysis_wait(oracle) ==
    IF oracle.kind = "raise" THEN FallbackAfterException
    ELSE IF oracle.kind = "unparseable" THEN FallbackAfterParseError
    ELSE Act(Get(oracle.action_type, "wait"),
             ConvertedTarget(oracle),
             Get(oracle.description, "No description provided"))

\* get_ai_page_analysis (utils.py:148-256)
get_ai_page_analysis(oracle) ==
    IF oracle.kind = "raise" THEN FallbackAfterException
    ELSE IF oracle.kind = "unparseable" THEN FallbackAfterParseError
    ELSE Act(Get(oracle.action_type, "scroll"),
             ConvertedTarget(oracle),
             Get(oracle.description, "No description provided"))

analyze_page_for_next_action(initialized, init_ok, page_ok, suggestion) ==
    LET i == IF ~initialized THEN initialize(initialized, init_ok)
             ELSE [ret |-> TRUE, is_initialized |-> initialized]
    IN  IF ~i.ret THEN [action |-> NoAction, none |-> TRUE,
                        is_initialized |-> i.is_initialized]
        ELSE LET c == capture_page_state(i.is_initialized, init_ok, page_ok)
             IN IF c.state = "None"
                THEN [action |-> NoAction, none |-> TRUE,
                      is_initialized |-> c.is_initialized]
                ELSE IF suggestion.action_type # Absent
                THEN [action |-> suggestion, none |-> FALSE,
                      is_initialized |-> c.is_initialized]
                ELSE [action |-> FallbackAction, none |-> FALSE,
                      is_initialized |-> c.is_initialized]

\* the suggestions the oracle may make at this point of the run
Suggestions ==
    IF oracle_calls < MaxOracleFree THEN OracleActions ELSE {next_action}

\* consultation of the oracle (agent.py:395-400)
Analyze(init_ok, page_ok, suggestion) ==
    /\ pc = "analyze"
    /\ UNCHANGED <<browserVars, fnVars, consoleVars>>
    /\ suggestion \in Suggestions
    /\ LET a == analyze_page_for_next_action(is_initialized, init_ok,
                                             page_ok, suggestion)
       IN /\ oracle_calls' = oracle_calls + 1
          /\ is_initialized' = a.is_initialized
          /\ session_up' = (session_up \/ a.is_initialized)
          /\ IF a.none
             THEN /\ stop' = NoSuggestion
                  /\ pc' = "final"
                  /\ next_action' = next_action
             ELSE /\ stop' = stop
                  /\ pc' = "check"
                  /\ next_action' = a.action
    /\ UNCHANGED <<browser_executor, browser_plan, results, executed_actions,
                   action_count, ret, response, exec_call, final_captures,
                   choice_presented, close_calls>>

\* a cycle that tests the heuristic only after it executed the suggestion
CheckAndExecute_late(init_ok) ==
    /\ pc = "check"
    /\ UNCHANGED <<browserVars, fnVars, consoleVars>>
    /\ \E found \in BOOLEAN :
       LET r == execute_action(next_action, is_initialized, init_ok, found)
       IN /\ action_count' = action_count + 1
          /\ exec_call' = Call(next_action, is_initialized, r)
          /\ is_initialized' = r.is_initialized
          /\ session_up' = (session_up \/ r.is_initialized)
          /\ IF r.raised
             THEN /\ pc' = "except"
                  /\ stop' = stop
                  /\ UNCHANGED <<results, executed_actions>>
             ELSE /\ results' = Append(results, r.result)
                  /\ executed_actions' = Append(executed_actions, next_action)
                  /\ IF _check_goal_completion(executed_actions)
                     THEN stop' = GoalCompleted /\ pc' = "final"
                     ELSE stop' = stop /\ pc' = "loop"
    /\ UNCHANGED <<browser_executor, browser_plan, next_action, ret, response,
                   oracle_calls, final_captures, choice_presented, close_calls>>

\* the rest of a cycle: heuristic, then execution of the suggested action
\* (agent.py:402-422)
CheckAndExecute(init_ok) ==
    /\ pc = "check"
    /\ UNCHANGED <<browserVars, fnVars, consoleVars>>
    /\ IF _check_goal_completion(executed_actions)
       THEN /\ stop' = GoalCompleted
            /\ pc' = "final"
            /\ UNCHANGED <<results, executed_actions, action_count,
                           exec_call, is_initialized, session_up>>
       ELSE \E found \in BOOLEAN :
            LET r == execute_action(next_action, is_initialized, init_ok, found)
            IN /\ action_count' = action_count + 1
               /\ exec_call' = Call(next_action, is_initialized, r)
               /\ is_initialized' = r.is_initialized
               /\ session_up' = (session_up \/ r.is_initialized)
               /\ stop' = stop
               /\ IF r.raised
                  THEN /\ pc' = "except"
                       /\ UNCHANGED <<results, executed_actions>>
                  ELSE /\ results' = Append(results, r.result)
                       /\ executed_actions' = Append(executed_actions, next_action)
                       /\ pc' = "loop"
    /\ UNCHANGED <<browser_executor, browser_plan, next_action, ret, response,
                   oracle_calls, final_captures, choice_presented, close_calls>>

\* an exit that skips the final snapshot when the loop was left on a failed
\* capture
Final_skip(init_ok, page_ok) ==
    /\ pc = "final"
    /\ UNCHANGED <<browserVars, fnVars, consoleVars>>
    /\ IF stop = CaptureFailed
       THEN UNCHANGED <<is_initialized, session_up, final_captures>>
       ELSE /\ LET c == capture_page_state(is_initialized, init_ok, page_ok)
               IN /\ is_initialized' = c.is_initialized
                  /\ session_up' = (session_up \/ c.is_initialized)
            /\ final_captures' = final_captures + 1
    /\ pc' = "keep_open"
    /\ UNCHANGED <<browser_executor, browser_plan, results, executed_actions,
                   action_count, next_action, stop, ret, response, exec_call,
                   oracle_calls, choice_presented, close_calls>>

\* after the loop: final snapshot and summary (agent.py:427-490)
Final(init_ok, page_ok) ==
    /\ pc = "final"
    /\ UNCHANGED <<browserVars, fnVars, consoleVars>>
    /\ LET c == capture_page_state(is_initialized, init_ok, page_ok)
       IN /\ is_initialized' = c.is_initialized
          /\ session_up' = (session_up \/ c.is_initialized)
    /\ final_captures' = final_captures + 1
    /\ pc' = "keep_open"
    /\ UNCHANGED <<browser_executor, browser_plan, results, executed_actions,
                   action_count, next_action, stop, ret, response, exec_call,
                   oracle_calls, choice_presented, close_calls>>

\* "Keep the browser open? (y/n)" and the report (agent.py:492-511)
KeepOpen(answer, close_ok) ==
    /\ pc = "keep_open"
    /\ UNCHANGED <<browserVars, fnVars, consoleVars>>
    /\ choice_presented' = TRUE
    /\ IF answer # "y"
       THEN /\ is_initialized' = close(is_initialized, close_ok)
            /\ close_calls' = close_calls + 1
       ELSE UNCHANGED <<is_initialized, close_calls>>
    /\ ret' = Report
    /\ pc' = "respond"
    /\ UNCHANGED <<browser_executor, browser_plan, results, executed_actions,
                   action_count, next_action, stop, response, exec_call,
                   oracle_calls, final_captures, session_up>>

Unhandled == "Traceback (most recent call last)"

\* an except clause whose close is not guarded: a failing close escapes
Except_unguarded(close_ok) ==
    /\ pc = "except"
    /\ UNCHANGED <<browserVars, fnVars, consoleVars>>
    /\ IF browser_executor # "None" /\ is_initialized
       THEN /\ is_initialized' = close(is_initialized, close_ok)
            /\ close_calls' = close_calls + 1
            /\ ret' = IF close_ok THEN ErrorReport ELSE Unhandled
       ELSE /\ UNCHANGED <<is_initialized, close_calls>>
            /\ ret' = ErrorReport
    /\ pc' = "respond"
    /\ UNCHANGED <<browser_executor, browser_plan, results, executed_actions,
                   action_count, next_action, stop, response, exec_call,
                   oracle_calls, final_captures, choice_presented, session_up>>

\* the except clause of _execute_browser_actions (agent.py:512-525)
Except(close_ok) ==
    /\ pc = "except"
    /\ UNCHANGED <<browserVars, fnVars, consoleVars>>
    /\ IF browser_executor # "None" /\ is_initialized
       THEN /\ is_initialized' = close(is_initialized, close_ok)
            /\ close_calls' = close_calls + 1
       ELSE UNCHANGED <<is_initialized, close_calls>>
    /\ ret' = ErrorReport
    /\ pc' = "respond"
    /\ UNCHANGED <<browser_executor, browser_plan, results, executed_actions,
                   action_count, next_action, stop, response, exec_call,
                   oracle_calls, final_captures, choice_presented, session_up>>

\* process_request after _display_browser_plan returned (agent.py:171-180):
\* the value returned by _display_browser_plan is dropped
Respond ==
    /\ pc = "respond"
    /\ UNCHANGED <<browserVars, fnVars, consoleVars>>
    /\ response' = Completed
    /\ pc' = "idle"
    /\ UNCHANGED <<browser_executor, is_initialized, browser_plan, results,
                   executed_actions, action_count, next_action, stop, ret,
                   exec_call, oracle_calls, final_captures, choice_presented,
                   close_calls, session_up>>

Answers == {"y", "n"}

Next ==
    \/ \E plan \in Plans : Request(plan)
    \/ \E answer \in Answers : Confirm(answer)
    \/ \E init_ok \in BOOLEAN : Start(init_ok)
    \/ \E init_ok \in BOOLEAN : Entry(init_ok)
    \/ \E init_ok \in BOOLEAN, page_ok \in BOOLEAN : Capture(init_ok, page_ok)
    \/ \E init_ok \in BOOLEAN, page_ok \in BOOLEAN, suggestion \in OracleActions :
          Analyze(init_ok, page_ok, suggestion)
    \/ \E init_ok \in BOOLEAN : CheckAndExecute(init_ok)
    \/ \E init_ok \in BOOLEAN, page_ok \in BOOLEAN : Final(init_ok, page_ok)
    \/ \E answer \in Answers, close_ok \in BOOLEAN : KeepOpen(answer, close_ok)
    \/ \E close_ok \in BOOLEAN : Except(close_ok)
    \/ Respond

Spec == Init /\ [][Next]_vars

\* every await of a run resolves or times out; only the next request of the
\* user may never come
Run ==
    \/ \E answer \in Answers : Confirm(answer)
    \/ \E init_ok \in BOOLEAN : Start(init_ok)
    \/ \E init_ok \in BOOLEAN : Entry(init_ok)
    \/ \E init_ok \in BOOLEAN, page_ok \in BOOLEAN : Capture(init_ok, page_ok)
    \/ \E init_ok \in BOOLEAN, page_ok \in BOOLEAN, suggestion \in OracleActions :
          Analyze(init_ok, page_ok, suggestion)
    \/ \E init_ok \in BOOLEAN : CheckAndExecute(init_ok)
    \/ \E init_ok \in BOOLEAN, page_ok \in BOOLEAN : Final(init_ok, page_ok)
    \/ \E answer \in Answers, close_ok \in BOOLEAN : KeepOpen(answer, close_ok)
    \/ \E close_ok \in BOOLEAN : Except(close_ok)
    \/ Respond

FairSpec == Spec /\ WF_vars(Run)

---------------------------------------------------------------------------
(* execute_action on its own: any action, any state of the session *)

\* the targeting fields an action of a kind may carry: a url, a selector, a
\* text or both, the website of a search, direction and distance of a scroll
TargetsOf(t) ==
    CASE t = "navigate" -> {"", "url"}
      [] t = "click" -> {"", "sel", "text", "sel+text"}
      [] t = "input" -> {"", "sel"}
      [] t = "search" -> {"", "website"}
      [] t = "scroll" -> {"", "up/300"}
      [] OTHER -> {""}

\* action dicts of every kind, with and without their targeting field
AllActions ==
    UNION { {Act(t, tg, "any") : tg \in TargetsOf(Lower(t))} :
               t \in KnownKinds \cup {"hover", "Click", PyNone} }

ExecInit ==
    /\ pc = "x_idle"
    /\ browser_executor = "BrowserExecutor"
    /\ is_initialized = FALSE
    /\ browser_plan = <<>>
    /\ results = <<>>
    /\ executed_actions = <<>>
    /\ action_count = 0
    /\ next_action = NoAction
    /\ stop = ""
    /\ ret = ""
    /\ response = ""
    /\ exec_call = NoCall
    /\ oracle_calls = 0
    /\ final_captures = 0
    /\ choice_presented = FALSE
    /\ close_calls = 0
    /\ session_up = FALSE
    /\ current_url = "about:blank"
    /\ live_browsers = 0
    /\ ops = <<>>
    /\ input = <<>>
    /\ output = <<>>
    /\ confirmation = ""

\* a caller hands an action to the executor
ExecSubmit(action) ==
    /\ pc = "x_idle"
    /\ next_action' = action
    /\ UNCHANGED <<browserVars, fnVars, consoleVars>>
    /\ pc' = "x_ready"
    /\ UNCHANGED <<browser_executor, is_initialized, browser_plan, results,
                   executed_actions, action_count, stop, ret, response,
                   exec_call, oracle_calls, final_captures, choice_presented,
                   close_calls, session_up>>

\* an execute_action that opens a fresh blank page for every action
ExecRun_blank(init, nav_ok, found, op_ok) ==
    /\ pc = "x_ready"
    /\ init = "late" => live_browsers < MaxLeaked
    /\ LET r == execute_action(next_action, is_initialized, init = "ok", found)
           at == "about:blank"
           b == IF r.is_initialized /\ ~r.raised
                THEN BrowserOps(next_action, at, nav_ok, found, op_ok)
                ELSE [trace |-> <<>>, url |-> at]
       IN /\ exec_call' = Call(next_action, is_initialized, r)
          /\ is_initialized' = r.is_initialized
          /\ ops' = b.trace
          /\ current_url' = b.url
    /\ live_browsers' = live_browsers + Launches(is_initialized, init)
    /\ pc' = "x_idle"
    /\ UNCHANGED <<fnVars, consoleVars>>
    /\ UNCHANGED <<browser_executor, browser_plan, results, executed_actions,
                   action_count, next_action, stop, ret, response,
                   oracle_calls, final_captures, choice_presented,
                   close_calls, session_up>>

\* BrowserExecutor.execute_action on the submitted action; a session started
\* by the call shows the blank page
ExecRun(init, nav_ok, found, op_ok) ==
    /\ pc = "x_ready"
    /\ init = "late" => live_browsers < MaxLeaked
    /\ LET r == execute_action(next_action, is_initialized, init = "ok", found)
           at == IF is_initialized THEN current_url ELSE "about:blank"
           b == IF r.is_initialized /\ ~r.raised
                THEN BrowserOps(next_action, at, nav_ok, found, op_ok)
                ELSE [trace |-> <<>>, url |-> at]
       IN /\ exec_call' = Call(next_action, is_initialized, r)
          /\ is_initialized' = r.is_initialized
          /\ ops' = b.trace
          /\ current_url' = b.url
    /\ live_browsers' = live_browsers + Launches(is_initialized, init)
    /\ pc' = "x_idle"
    /\ UNCHANGED <<fnVars, consoleVars>>
    /\ UNCHANGED <<browser_executor, browser_plan, results, executed_actions,
                   action_count, next_action, stop, ret, response,
                   oracle_calls, final_captures, choice_presented,
                   close_calls, session_up>>

\* BrowserExecutor.close between two actions
ExecClose(close_ok) ==
    /\ pc = "x_idle"
    /\ is_initialized
    /\ is_initialized' = close(is_initialized, close_ok)
    /\ live_browsers' = live_browsers - Closes(is_initialized, close_ok)
    /\ UNCHANGED <<current_url, ops, fnVars, consoleVars>>
    /\ UNCHANGED <<pc, browser_executor, browser_plan, results,
                   executed_actions, action_count, next_action, stop, ret,
                   response, exec_call, oracle_calls, final_captures,
                   choice_presented, close_calls, session_up>>

ExecNext ==
    \/ \E action \in AllActions : ExecSubmit(action)
    \/ \E init \in InitOutcomes, nav_ok \in BOOLEAN, found \in BOOLEAN,
          op_ok \in BOOLEAN : ExecRun(init, nav_ok, found, op_ok)
    \/ \E close_ok \in BOOLEAN : ExecClose(close_ok)

ExecSpec == ExecInit /\ [][ExecNext]_vars

---------------------------------------------------------------------------
(* Functions of the Agent on their own *)

\* an Agent and an executor nothing has run on
AtRest ==
    /\ browser_executor = "None"
    /\ is_initialized = FALSE
    /\ browser_plan = <<>>
    /\ results = <<>>
    /\ executed_actions = <<>>
    /\ action_count = 0
    /\ next_action = NoAction
    /\ stop = ""
    /\ ret = ""
    /\ response = ""
    /\ exec_call = NoCall
    /\ oracle_calls = 0
    /\ final_captures = 0
    /\ choice_presented = FALSE
    /\ close_calls = 0
    /\ session_up = FALSE
    /\ current_url = "about:blank"
    /\ live_browsers = 0
    /\ ops = <<>>
    /\ confirmation = ""

\* everything but the function's argument and result
restVars == <<browser_executor, is_initialized, browser_plan, results,
              executed_actions, action_count, next_action, stop, ret,
              response, exec_call, oracle_calls, final_captures,
              choice_presented, close_calls, session_up, current_url,
              live_browsers, ops, confirmation>>

\* the action types _execute_browser_actions logs in executed_actions
\* (agent.py:375, 411)
HeurKinds == {"navigate", "click", "scroll", "capture_state"}

\* the lists of executed actions of at most MaxLen entries
ExecutedLists ==
    UNION { [1..n -> {Act(t, "", "any") : t \in HeurKinds}] : n \in 0..MaxLen }

HeurInit ==
    /\ pc = "f_ready"
    /\ AtRest
    /\ input \in ExecutedLists
    /\ output = <<>>

\* the call _check_goal_completion(goal, executed_actions, page_state)
\* (agent.py:402)
HeurApply ==
    /\ pc = "f_ready"
    /\ output' = _check_goal_completion(input)
    /\ pc' = "f_done"
    /\ UNCHANGED <<input, restVars>>

HeurNext == HeurApply

HeurSpec == HeurInit /\ [][HeurNext]_vars

---------------------------------------------------------------------------
(* From the request to the initial action list *)

\* the longest browser_action list a Planner reply holds in the model
MaxItems == 2

\* website_mentions of process_request, in the order of the dict
\* (agent.py:61-70)
SiteOrder == << "redfin", "zillow", "apartments.com", "trulia", "linkedin",
                "indeed", "amazon", "ebay" >>

SiteUrl(site) ==
    CASE site = "redfin" -> "https://www.redfin.com/city/30749/NY/New-York/apartments-for-rent"
      [] site = "zillow" -> "https://www.zillow.com/homes/for_rent/"
      [] site = "apartments.com" -> "https://www.apartments.com/new-york-ny/"
      [] site = "trulia" -> "https://www.trulia.com/for_rent/New_York,NY/"
      [] site = "linkedin" -> "https://www.linkedin.com/jobs/"
      [] site = "indeed" -> "https://www.indeed.com/jobs"
      [] site = "amazon" -> "https://www.amazon.com/s"
      [] site = "ebay" -> "https://www.ebay.com/sch/i.html"

\* the first site of the table the text mentions, Absent when it mentions
\* none of the first n (agent.py:72-77); mentions is the set of site
\* keywords the text contains
FirstMention(mentions, n) ==
    LET hits == {i \in 1..n : SiteOrder[i] \in mentions}
    IN IF hits = {} THEN Absent
       ELSE SiteOrder[CHOOSE i \in hits : \A j \in hits : i <= j]

\* a command of the command list
BrowserCommand(action) == [type |-> "browser", action |-> action]

TerminalCommand == [type |-> "terminal", action |-> NoAction]

\* a JSON value the Planner may put under browser_action, or an item of it:
\* json is what kind of JSON value it is; action_type and query are the
\* keys of an object, and the query may name a site
JsonObjects ==
    [json : {"object"},
     action_type : {Absent, "navigate", "search"},
     query : {Absent, PyNone, "q", "q zillow"}]

JsonScalars ==
    [json : {"null", "string"}, action_type : {Absent}, query : {Absent}]

ListItems ==
    { [json |-> "object", action_type |-> "navigate", query |-> Absent],
      [json |-> "object", action_type |-> Absent, query |-> Absent],
      [json |-> "string", action_type |-> Absent, query |-> Absent] }

\* the value under the key browser_action, when the key is there
BrowserActionValues ==
    { [json |-> v.json, action_type |-> v.action_type, query |-> v.query,
       items |-> <<>>] : v \in JsonObjects \cup JsonScalars }
    \cup
    { [json |-> "array", action_type |-> Absent, query |-> Absent,
       items |-> l] : l \in UNION { [1..n -> ListItems] : n \in 0..MaxItems } }

NoKey == [json |-> Absent, action_type |-> Absent, query |-> Absent,
          items |-> <<>>]

\* replies of get_ai_response (utils.py:258-336): a dict in JSON mode, a
\* text otherwise and on errors; text tells which part of the text parsing
\* of _extract_commands the text triggers
DictReplies ==
    [kind : {"dict"}, text : {Absent},
     browser_action : BrowserActionValues \cup {NoKey},
     terminal_commands : {Absent, "string", "array", "number"}]

TextReplies ==
    [kind : {"text"}, text : {"plain", "block", "shell", "url", "keyword", "keyword zillow"},
     browser_action : {NoKey}, terminal_commands : {Absent}]

\* the website categories get_search_query may answer (agent.py:889-921)
Categories == {"general", "jobs", "unknown"}

\* Agent._determine_search_website (agent.py:866-934)
_determine_search_website(category) ==
    CASE category = "general" ->
           [name |-> "Google", url |-> "https://www.google.com",
            direct_url |-> "https://www.google.com/search"]
      [] category = "jobs" ->
           [name |-> "LinkedIn", url |-> "https://www.linkedin.com",
            direct_url |-> "https://www.linkedin.com/jobs/"]
      [] OTHER ->
           [name |-> "Google", url |-> "https://www.google.com",
            direct_url |-> "https://www.google.com/search"]

\* the command built from the chosen website (agent.py:136-157, 778-799):
\* direct navigation if the website has a direct_url, otherwise a search
WebsiteCommand(website_info) ==
    IF website_info.direct_url # ""
    THEN BrowserCommand(Act("navigate", website_info.direct_url, "generic"))
    ELSE BrowserCommand(Act("search", "website", "generic"))

\* the action dict the Planner gave, as an action of the model
ActionOf(v) ==
    Act(v.action_type, IF v.action_type = "navigate" THEN "url" ELSE "", "planner")

\* the commands of the browser_action key (agent.py:610-664): .get is called
\* on the value before its type is tested
BrowserActionCommands(v) ==
    IF v.json # "object"
    THEN [raised |-> TRUE, commands |-> <<>>]
    ELSE IF v.action_type = "search" /\ v.query # Absent
    THEN IF ~IsStr(v.query)
         THEN [raised |-> TRUE, commands |-> <<>>]
         ELSE IF FirstMention(IF v.query = "q zillow" THEN {"zillow"} ELSE {}, 4) # Absent
         THEN [raised |-> FALSE,
               commands |-> << BrowserCommand(Act("navigate", SiteUrl("zillow"), "direct")) >>]
         ELSE [raised |-> FALSE, commands |-> << BrowserCommand(ActionOf(v)) >>]
    ELSE IF v.action_type # Absent
    THEN [raised |-> FALSE, commands |-> << BrowserCommand(ActionOf(v)) >>]
    ELSE [raised |-> FALSE, commands |-> <<>>]

\* the commands of the terminal_commands key (agent.py:666-682)
TerminalCommands(v) ==
    IF v \in {"string", "array"} THEN << TerminalCommand >> ELSE <<>>

\* the text parsing of _extract_commands (agent.py:686-810)
TextCommands(text, category) ==
    CASE text = "block" -> << BrowserCommand(Act("click", "sel", "planner")) >>
      [] text = "shell" -> << TerminalCommand >>
      [] text = "url" -> << BrowserCommand(Act("navigate", "url", "planner")) >>
      [] text = "keyword zillow" ->
           << BrowserCommand(Act("navigate", SiteUrl("zillow"), "direct")) >>
      [] text = "keyword" ->
           << WebsiteCommand(_determine_search_website(category)) >>
      [] OTHER -> <<>>

\* Agent._extract_commands (agent.py:593-810)
_extract_commands(reply, category) ==
    IF reply.kind = "dict"
    THEN LET b == IF reply.browser_action = NoKey
                  THEN [raised |-> FALSE, commands |-> <<>>]
                  ELSE BrowserActionCommands(reply.browser_action)
         IN IF b.raised THEN b
            ELSE [raised |-> FALSE,
                  commands |-> b.commands \o TerminalCommands(reply.terminal_commands)]
    ELSE [raised |-> FALSE, commands |-> TextCommands(reply.text, category)]

RECURSIVE _extract_browser_actions(_)
\* Agent._extract_browser_actions (agent.py:812-837)
_extract_browser_actions(commands) ==
    IF commands = <<>> THEN <<>>
    ELSE (IF commands[1].type = "browser" /\ commands[1].action.action_type # Absent
          THEN << commands[1].action >> ELSE <<>>)
         \o _extract_browser_actions(Tail(commands))

\* process_request without the direct navigation of a mentioned site
CommandsOf_nodirect(request) ==
    LET e == _extract_commands(request.reply, request.category)
    IN IF e.raised THEN [raised |-> TRUE, extracted |-> e, commands |-> <<>>]
       ELSE IF e.commands = <<>> /\ request.browser_request
       THEN [raised |-> FALSE, extracted |-> e,
             commands |-> << WebsiteCommand(_determine_search_website(request.category)) >>]
       ELSE [raised |-> FALSE, extracted |-> e, commands |-> e.commands]

\* the command list of process_request (agent.py:72-157); extracted is what
\* _extract_commands returned when it was called
CommandsOf(request) ==
    LET direct_navigation == FirstMention(request.mentions, Len(SiteOrder))
    IN IF direct_navigation # Absent
       THEN [raised |-> FALSE,
             extracted |-> [raised |-> FALSE, commands |-> <<>>],
             commands |-> << BrowserCommand(
                               Act("navigate", SiteUrl(direct_navigation), "direct")) >>]
       ELSE LET e == _extract_commands(request.reply, request.category)
            IN IF e.raised
               THEN [raised |-> TRUE, extracted |-> e, commands |-> <<>>]
               ELSE IF e.commands = <<>> /\ request.browser_request
               THEN [raised |-> FALSE, extracted |-> e,
                     commands |-> << WebsiteCommand(
                                       _determine_search_website(request.category)) >>]
               ELSE [raised |-> FALSE, extracted |-> e, commands |-> e.commands]

\* the requests: the site keywords and whether a browser keyword occurs in
\* the text, the Planner's reply, which is a dict only in JSON mode
\* (agent.py:83-84), and the category get_search_query answers
Requests ==
    { r \in [mentions : SUBSET {"redfin", "zillow", "ebay"},
             browser_request : BOOLEAN,
             reply : DictReplies \cup TextReplies,
             category : Categories] :
        r.reply.kind = "dict" => r.browser_request }

\* an item of the list handed to _display_terminal_plan: a command string
\* or a command dictionary
CommandString == [json |-> "string", command |-> "ls"]

\* Agent._extract_terminal_commands (agent.py:839-864): the command strings
\* of the terminal commands
_extract_terminal_commands(commands) ==
    LET t == SelectSeq(commands, LAMBDA c : c.type = "terminal")
    IN [i \in 1..Len(t) |-> CommandString]

\* Agent._display_terminal_plan (agent.py:225-253): cmd['command'] raises
\* TypeError on a command string; confirm is what the user types at
\* "Execute this plan? (y/n)" when the plan is displayed
_display_terminal_plan(commands, confirm) ==
    IF commands = <<>>
    THEN [raised |-> FALSE, asked |-> FALSE, ret |-> FALSE]
    ELSE IF \E i \in 1..Len(commands) : commands[i].json # "object"
    THEN [raised |-> TRUE, asked |-> FALSE, ret |-> FALSE]
    ELSE [raised |-> FALSE, asked |-> TRUE, ret |-> confirm = "y"]

\* a process_request that runs the terminal commands it found
TerminalPlan_run(commands, browser_actions, confirm) ==
    IF commands = <<>> \/ browser_actions # <<>>
    THEN [terminal_commands |-> <<>>, raised |-> FALSE, asked |-> FALSE,
          run |-> <<>>]
    ELSE LET t == _extract_terminal_commands(commands)
             d == _display_terminal_plan(t, confirm)
         IN [terminal_commands |-> t, raised |-> d.raised, asked |-> d.asked,
             run |-> t]

\* process_request after the command list (agent.py:160-190): with browser
\* actions it returns before it looks at the terminal commands; the value
\* of _display_terminal_plan is dropped and nothing calls
\* _execute_terminal_commands or the TerminalExecutor; run is the list of
\* the commands handed to a process
TerminalPlan(commands, browser_actions, confirm) ==
    IF commands = <<>> \/ browser_actions # <<>>
    THEN [terminal_commands |-> <<>>, raised |-> FALSE, asked |-> FALSE,
          run |-> <<>>]
    ELSE LET t == _extract_terminal_commands(commands)
             d == _display_terminal_plan(t, confirm)
         IN [terminal_commands |-> t, raised |-> d.raised, asked |-> d.asked,
             run |-> <<>>]

RequestInit ==
    /\ pc = "r_ready"
    /\ AtRest
    /\ input \in Requests
    /\ output = <<>>

\* process_request up to the action list handed to _display_browser_plan
\* (agent.py:38-166), and its handling of the terminal commands
\* (agent.py:184-190); confirm is what the user would type at the prompt of
\* the terminal plan
ProcessRequest(confirm) ==
    /\ pc = "r_ready"
    /\ LET c == CommandsOf(input)
           b == _extract_browser_actions(c.commands)
       IN output' = [raised |-> c.raised, extracted |-> c.extracted,
                     commands |-> c.commands,
                     browser_actions |-> b,
                     terminal |-> TerminalPlan(c.commands, b, confirm),
                     confirm |-> confirm]
    /\ pc' = "r_done"
    /\ UNCHANGED <<input, restVars>>

RequestNext == \E confirm \in Answers : ProcessRequest(confirm)

RequestSpec == RequestInit /\ [][RequestNext]_vars

---------------------------------------------------------------------------
(* The oracle adapter on its own *)

\* one consultation: the oracle's behaviour, the session and the page
Consultations ==
    [oracle : OracleBehaviours, init_ok : BOOLEAN, page_ok : BOOLEAN]

AdapterInit ==
    /\ pc = "a_ready"
    /\ browser_executor = "BrowserExecutor"
    /\ is_initialized \in BOOLEAN
    /\ browser_plan = <<>>
    /\ results = <<>>
    /\ executed_actions = <<>>
    /\ action_count = 0
    /\ next_action = NoAction
    /\ stop = ""
    /\ ret = ""
    /\ response = ""
    /\ exec_call = NoCall
    /\ oracle_calls = 0
    /\ final_captures = 0
    /\ choice_presented = FALSE
    /\ close_calls = 0
    /\ session_up = is_initialized
    /\ current_url = "about:blank"
    /\ live_browsers = IF is_initialized THEN 1 ELSE 0
    /\ ops = <<>>
    /\ input \in Consultations
    /\ output = <<>>
    /\ confirmation = ""

\* analyze_page_for_next_action(goal_description) with the oracle, the
\* session and the page behaving as in the consultation
AdapterApply ==
    /\ pc = "a_ready"
    /\ LET r == analyze_page_for_next_action(
                    is_initialized, input.init_ok, input.page_ok,
                    get_ai_page_analysis(input.oracle))
       IN /\ output' = [action |-> r.action, none |-> r.none]
          /\ is_initialized' = r.is_initialized
          /\ session_up' = r.is_initialized
    /\ pc' = "a_done"
    /\ oracle_calls' = IF input.page_ok /\ is_initialized' THEN 1 ELSE 0
    /\ UNCHANGED <<input, browser_executor, browser_plan, results,
                   executed_actions, action_count, next_action, stop, ret,
                   response, exec_call, final_captures, choice_presented,
                   close_calls, browserVars, consoleVars>>

AdapterNext == AdapterApply

AdapterSpec == AdapterInit /\ [][AdapterNext]_vars

---------------------------------------------------------------------------
(* The conversion of get_ai_page_analysis, field by field *)

\* the longest selector value the oracle replies with in the model
MaxStr == 2

\* strings are sequences of pieces, so that f"#{v}" is a concatenation
Strs == UNION { [1..n -> {"#", ".", "a"}] : n \in 0..MaxStr }

\* a string key and a number key that a dict does not hold
NoStr == << "<absent>" >>

NoNum == -1

\* dict.get(key, default) on such keys
GetStr(v, default) == IF v = NoStr THEN default ELSE v

GetNum(v, default) == IF v = NoNum THEN default ELSE v

\* the replies of the page-analysis schema (utils.py:75-118), by kind
ClickReplies ==
    [action_type : {<<"click">>},
     selector_strategy : {NoStr, <<"id">>, <<"class">>, <<"xpath">>, <<"text">>},
     selector_value : Strs \cup {NoStr},
     input_value : {NoStr}, url : {NoStr}, direction : {NoStr},
     distance : {NoNum}, duration : {NoNum}]

InputReplies ==
    [action_type : {<<"input">>},
     selector_strategy : {NoStr, <<"id">>, <<"name">>, <<"placeholder">>, <<"label">>},
     selector_value : Strs \cup {NoStr},
     input_value : {NoStr, <<"a">>}, url : {NoStr}, direction : {NoStr},
     distance : {NoNum}, duration : {NoNum}]

OtherReplies ==
    [action_type : {<<"scroll">>, <<"wait">>, <<"navigate">>, <<"search">>,
                    <<"capture_state">>},
     selector_strategy : {NoStr}, selector_value : {NoStr},
     input_value : {NoStr}, url : {NoStr, <<"a">>},
     direction : {NoStr, <<"up">>, <<"down">>},
     distance : {NoNum, 300, 500}, duration : {NoNum, 2, 5}]

SchemaReplies == ClickReplies \cup InputReplies \cup OtherReplies

\* an action dict of the executor without any parameter
Bare(t) ==
    [action_type |-> t, selector |-> NoStr, selector_type |-> NoStr,
     text |-> NoStr, value |-> NoStr, url |-> NoStr, direction |-> NoStr,
     distance |-> NoNum, duration |-> NoNum]

\* converted_action of get_ai_page_analysis (utils.py:189-236)
converted_action(reply) ==
    LET t == reply.action_type
        selector_value == GetStr(reply.selector_value, <<>>)
    IN CASE t = <<"click">> ->
              LET selector_strategy == GetStr(reply.selector_strategy, <<"text">>)
              IN IF selector_strategy = <<"id">>
                 THEN [Bare(t) EXCEPT !.selector = <<"#">> \o selector_value]
                 ELSE IF selector_strategy = <<"class">>
                 THEN [Bare(t) EXCEPT !.selector = <<".">> \o selector_value]
                 ELSE IF selector_strategy = <<"xpath">>
                 THEN [Bare(t) EXCEPT !.selector = selector_value,
                                      !.selector_type = <<"xpath">>]
                 ELSE [Bare(t) EXCEPT !.text = selector_value]
         [] t = <<"input">> ->
              LET selector_strategy == GetStr(reply.selector_strategy, <<"id">>)
                  selector ==
                    IF selector_strategy = <<"name">>
                    THEN <<"[name='">> \o selector_value \o <<"']">>
                    ELSE IF selector_strategy = <<"placeholder">>
                    THEN <<"[placeholder='">> \o selector_value \o <<"']">>
                    ELSE <<"#">> \o selector_value
              IN [Bare(t) EXCEPT !.selector = selector,
                                 !.value = GetStr(reply.input_value, <<>>)]
         [] t = <<"scroll">> ->
              [Bare(t) EXCEPT !.direction = GetStr(reply.direction, <<"down">>),
                              !.distance = GetNum(reply.distance, 500)]
         [] t = <<"wait">> ->
              [Bare(t) EXCEPT !.duration = GetNum(reply.duration, 2)]
         [] t = <<"navigate">> ->
              [Bare(t) EXCEPT !.url = GetStr(reply.url, <<>>)]
         [] OTHER -> Bare(t)

\* the actions execute_action accepts for the page-driving kinds of the
\* schema: a click by a CSS or an XPath selector or by a text, an input
\* into a selector, a scroll, a wait, a navigation
\* (browser_executor.py:1297-1441)
ExecutorActions ==
    { [Bare(<<"click">>) EXCEPT !.selector = sel, !.selector_type = ty] :
          sel \in Strs \ {<<>>}, ty \in {NoStr, <<"xpath">>} }
    \cup { [Bare(<<"click">>) EXCEPT !.text = tx] : tx \in Strs \ {<<>>} }
    \cup { [Bare(<<"input">>) EXCEPT !.selector = sel, !.value = <<"a">>] :
             sel \in Strs \ {<<>>} }
    \cup { [Bare(<<"scroll">>) EXCEPT !.direction = d, !.distance = n] :
             d \in {<<"up">>, <<"down">>}, n \in {300, 500} }
    \cup { [Bare(<<"wait">>) EXCEPT !.duration = n] : n \in {2, 5} }
    \cup { [Bare(<<"navigate">>) EXCEPT !.url = <<"a">>] }

NormInit ==
    /\ pc = "n_ready"
    /\ AtRest
    /\ input \in ExecutorActions
    /\ output = <<>>

\* an action is written as a reply of the schema and converted back
Normalize(reply) ==
    /\ pc = "n_ready"
    /\ reply.action_type = input.action_type
    /\ output' = [reply |-> reply, action |-> converted_action(reply)]
    /\ pc' = "n_done"
    /\ UNCHANGED <<input, restVars>>

NormNext == \E reply \in SchemaReplies : Normalize(reply)

NormSpec == NormInit /\ [][NormNext]_vars

---------------------------------------------------------------------------
(* BrowserExecutor._clean_search_query *)

\* the longest query built freely from the vocabulary
MaxWords == 3

\* a query is the sequence of its words, which single spaces separate
Vocabulary == {"I'll", "search", "for", "rental", "in", "New", "$3000",
               "Athens", "please", "find"}

SpecExample == << "I'll", "search", "for", "rental", "apartments", "in",
                  "New", "York", "under", "$3000" >>

CleanExample == << "software", "engineer", "jobs", "Seattle" >>

LongExample == << "rental", "apartments", "in", "New", "York", "under",
                  "$3000", "for", "software", "engineer", "jobs" >>

Queries ==
    UNION { [1..n -> Vocabulary] : n \in 0..MaxWords }
    \cup {SpecExample, CleanExample, LongExample}

\* str.lower() on a word
LowerWord(w) ==
    CASE w = "I'll" -> "i'll"
      [] w = "New" -> "new"
      [] w = "York" -> "york"
      [] w = "Athens" -> "athens"
      [] w = "Seattle" -> "seattle"
      [] OTHER -> w

\* re.sub(r'[^\w\s$%]', '', w) on a word
Unpunct(w) ==
    CASE w = "I'll" -> "Ill"
      [] w = "i'll" -> "ill"
      [] OTHER -> w

\* the words of fewer than three characters
Short(w) == w \in {"in", ""}

\* the phrases of the test at browser_executor.py:1582 that occur inside a
\* lower-cased word of the vocabulary, as substrings
Inside(w) ==
    CASE w = "i'll" -> {"i'll"}
      [] w = "please" -> {"please"}
      [] w = "athens" -> {"then"}
      [] OTHER -> {}

\* phrase in query.lower() for the single-word phrases of the test; its
\* two-word phrases need words the vocabulary does not have
CheckPhrases == {"i'll", "first", "then", "please"}

ContainsCheckPhrase(query) ==
    \E i \in 1..Len(query) : Inside(LowerWord(query[i])) \cap CheckPhrases # {}

\* query.lower()
LowerQuery(query) == [i \in 1..Len(query) |-> LowerWord(query[i])]

RECURSIVE RemoveLiteral(_, _)
\* re.sub(phrase, "", s) for a phrase without wildcard, which the words of
\* the vocabulary contain as whole words only
RemoveLiteral(phrase, s) ==
    IF Len(s) < Len(phrase) THEN s
    ELSE IF SubSeq(s, 1, Len(phrase)) = phrase
    THEN RemoveLiteral(phrase, SubSeq(s, Len(phrase) + 1, Len(s)))
    ELSE << s[1] >> \o RemoveLiteral(phrase, Tail(s))

\* the first position after from where "search for" starts, 0 if none
NextSearchFor(s, from) ==
    LET hits == {j \in from..(Len(s) - 1) : s[j] = "search" /\ s[j + 1] = "for"}
    IN IF hits = {} THEN 0 ELSE CHOOSE j \in hits : \A k \in hits : j <= k

RECURSIVE RemoveSpan(_)
\* re.sub(r"i'll.*?search for", "", s)
RemoveSpan(s) ==
    IF s = <<>> THEN s
    ELSE IF s[1] = "i'll" /\ NextSearchFor(s, 2) # 0
    THEN RemoveSpan(SubSeq(s, NextSearchFor(s, 2) + 2, Len(s)))
    ELSE << s[1] >> \o RemoveSpan(Tail(s))

\* phrases_to_remove after the first, in order; a trailing .*? matches
\* nothing (browser_executor.py:1586-1606)
phrases_to_remove ==
    << << "let", "me", "search", "for" >>, << "i", "will", "search", "for" >>,
       << "help", "me", "find" >>, << "please", "search", "for" >>,
       << "could", "you", "search", "for" >>, << "i", "need", "to", "find" >>,
       << "i", "want", "to", "search", "for" >>, << "search", "for" >>,
       << "looking", "for" >>, << "find" >>, << "first," >>, << "then," >>,
       << "next," >>, << "finally," >>, << "i'll" >>, << "i", "will" >>,
       << "let's" >>, << "let", "me" >> >>

RECURSIVE RemoveAll(_, _)
\* the loop over phrases_to_remove (browser_executor.py:1609-1610)
RemoveAll(phrases, s) ==
    IF phrases = <<>> THEN s
    ELSE RemoveAll(Tail(phrases), RemoveLiteral(phrases[1], s))

\* removal of punctuation, then collapse of whitespace and strip
Tidy(s) ==
    SelectSeq([i \in 1..Len(s) |-> Unpunct(s[i])], LAMBDA w : w # "")

\* len(cleaned_query) < 3
TooShort(s) == s = <<>> \/ (Len(s) = 1 /\ Short(s[1]))

\* BrowserExecutor._clean_search_query (browser_executor.py:1569-1623)
_clean_search_query(query) ==
    IF Len(query) <= 10 /\ ~ContainsCheckPhrase(query)
    THEN query
    ELSE LET cleaned_query ==
               Tidy(RemoveAll(phrases_to_remove, RemoveSpan(LowerQuery(query))))
         IN IF TooShort(cleaned_query) THEN Tidy(query) ELSE cleaned_query

CleanInit ==
    /\ pc = "c_ready"
    /\ AtRest
    /\ input \in Queries
    /\ output = <<>>

\* query = self._clean_search_query(query) (browser_executor.py:1451)
Clean ==
    /\ pc = "c_ready"
    /\ output' = _clean_search_query(input)
    /\ pc' = "c_done"
    /\ UNCHANGED <<input, restVars>>

CleanNext == Clean

CleanSpec == CleanInit /\ [][CleanNext]_vars

---------------------------------------------------------------------------
(* execute_action: an input action without selector *)

\* the most search boxes a page shows
MaxVisible == 2

\* search_selectors (browser_executor.py:1355-1371)
search_selectors ==
    << "input[type='search']", "input[name='search']",
       "input[placeholder*='search' i]", "input[placeholder*='find' i]",
       "input[placeholder*='location' i]", "input[placeholder*='address' i]",
       "input[placeholder*='city' i]", "input[placeholder*='where' i]",
       "input[aria-label*='search' i]", "input.search-input",
       ".search-box input", ".searchbox input",
       "[data-rf-test-id='search-box-input']",
       "[data-rf-test-name='search-box-input']", "input#search-box-input" >>

\* the pages, told apart by which of the selectors match a visible element
Pages ==
    {v \in SUBSET {search_selectors[i] : i \in 1..Len(search_selectors)} :
        Cardinality(v) <= MaxVisible}

\* timeout=1000 (browser_executor.py:1377)
ProbeTimeout == 1000

\* timeout=5000 (browser_executor.py:853-855)
FillTimeout == 5000

\* one step on the page: what was done, on which selector, with which
\* timeout in milliseconds, and whether it succeeded
Step(op, selector, timeout, ok) ==
    [op |-> op, selector |-> selector, timeout |-> timeout, ok |-> ok]

FilledSearchBox == "Filled search box"
NoSearchBox == "Error: Could not find a search box to fill"

RECURSIVE TrySelectors(_, _, _, _)

\* a chain in which a failing Enter keypress fails the action
TrySelectors_enter(selectors, visible, fill_ok, enter_ok) ==
    IF selectors = <<>>
    THEN [trace |-> <<>>, result |-> NoSearchBox, raised |-> FALSE]
    ELSE IF Head(selectors) \in visible
    THEN [trace |-> << Step("wait_for_selector", Head(selectors), ProbeTimeout, TRUE),
                       Step("fill_input", Head(selectors), FillTimeout, fill_ok),
                       Step("press", "Enter", 0, enter_ok) >>,
          result |-> IF enter_ok THEN FilledSearchBox ELSE NoSearchBox,
          raised |-> FALSE]
    ELSE LET rest == TrySelectors(Tail(selectors), visible, fill_ok, enter_ok)
         IN [trace |-> << Step("wait_for_selector", Head(selectors),
                               ProbeTimeout, FALSE) >> \o rest.trace,
             result |-> rest.result, raised |-> rest.raised]

\* the loop over search_selectors (browser_executor.py:1373-1399): visible is
\* the set of selectors that match a visible element, fill_ok whether
\* fill_input returns True, enter_ok whether the Enter keypress succeeds
TrySelectors(selectors, visible, fill_ok, enter_ok) ==
    IF selectors = <<>>
    THEN [trace |-> <<>>, result |-> NoSearchBox, raised |-> FALSE]
    ELSE IF Head(selectors) \in visible
    THEN [trace |-> << Step("wait_for_selector", Head(selectors), ProbeTimeout, TRUE),
                       Step("fill_input", Head(selectors), FillTimeout, fill_ok),
                       Step("press", "Enter", 0, enter_ok) >>,
          result |-> FilledSearchBox, raised |-> FALSE]
    ELSE LET rest == TrySelectors(Tail(selectors), visible, fill_ok, enter_ok)
         IN [trace |-> << Step("wait_for_selector", Head(selectors),
                               ProbeTimeout, FALSE) >> \o rest.trace,
             result |-> rest.result, raised |-> rest.raised]

\* an input action without selector reaches a ready session showing a page
InputInit ==
    /\ pc = "i_ready"
    /\ AtRest
    /\ input \in [visible : Pages]
    /\ output = <<>>

\* the input branch of execute_action without selector
\* (browser_executor.py:1345-1399)
FillSearchBox(fill_ok, enter_ok) ==
    /\ pc = "i_ready"
    /\ output' = TrySelectors(search_selectors, input.visible, fill_ok, enter_ok)
    /\ pc' = "i_done"
    /\ UNCHANGED <<input, restVars>>

InputNext ==
    \E fill_ok \in BOOLEAN, enter_ok \in BOOLEAN : FillSearchBox(fill_ok, enter_ok)

InputSpec == InputInit /\ [][InputNext]_vars

---------------------------------------------------------------------------
(* TerminalExecutor *)

\* self.dangerous_commands (terminal_executor.py:25-28)
dangerous_commands ==
    {"rm", "rmdir", "del", "format", "shutdown", "reboot", "mkfs", "dd",
     ":(){:|:&};:", "> /dev/sda", "chmod -R 777 /"}

\* what a command starts with, after an optional sudo
Heads == {"rm", "RM", "rmdir", "format", "shutdown", "dd", ":(){:|:&};:",
          "chmod -R 777 /", "ls", "cd"}

\* what follows the head, after one space; "" when nothing follows
Arguments == {"", "-rf /tmp", "/tmp"}

Commands == [sudo : BOOLEAN, head : Heads, args : Arguments]

\* str.lower() on the heads and on the answers of the user
LowerText(s) ==
    CASE s = "RM" -> "rm"
      [] s = "chmod -R 777 /" -> "chmod -r 777 /"
      [] s = "Y" -> "y"
      [] OTHER -> s

\* a check of the deny-list that does not look behind sudo
_is_dangerous_nosudo(command) ==
    \/ ~command.sudo /\ LowerText(command.head) \in dangerous_commands
    \/ LowerText(command.head) = "rm" /\ command.args = "-rf /tmp"

\* TerminalExecutor._is_dangerous (terminal_executor.py:143-171)
_is_dangerous(command) ==
    \/ ~command.sudo /\ LowerText(command.head) \in dangerous_commands
    \/ LowerText(command.head) = "rm" /\ command.args = "-rf /tmp"
    \/ command.sudo /\ LowerText(command.head) \in dangerous_commands

CommandCancelled == "Command execution cancelled for safety reasons."

\* what the user types at the prompt
Confirmations == {"y", "Y", "n", ""}

\* how the started process ends
ProcessOutcomes == {"zero", "nonzero", "timeout", "raise"}

TermResult(success, message, started, dir, asked) ==
    [success |-> success, message |-> message, started |-> started,
     current_dir |-> dir, asked |-> asked]

\* TerminalExecutor._handle_cd_command (terminal_executor.py:96-141)
_handle_cd_command(command, dir, exists, asked) ==
    IF exists
    THEN TermResult(TRUE, "Changed directory to", <<>>, command.args, asked)
    ELSE TermResult(FALSE, "Directory not found", <<>>, dir, asked)

\* TerminalExecutor.execute (terminal_executor.py:30-94)
execute(command, dir, confirm, exists, outcome) ==
    IF _is_dangerous(command) /\ LowerText(confirm) # "y"
    THEN TermResult(FALSE, CommandCancelled, <<>>, dir, TRUE)
    ELSE IF ~command.sudo /\ command.head = "cd" /\ command.args # ""
    THEN _handle_cd_command(command, dir, exists, _is_dangerous(command))
    ELSE TermResult(outcome = "zero",
                    CASE outcome = "zero" -> "stdout"
                      [] outcome = "nonzero" -> "Error (code"
                      [] outcome = "timeout" -> "Command timed out after 60 seconds."
                      [] OTHER -> "Failed to execute command",
                    IF outcome = "raise" THEN <<>> ELSE << command >>,
                    dir, _is_dangerous(command))

\* self.current_dir = os.getcwd() (terminal_executor.py:22)
TermInit ==
    /\ pc = "t_ready"
    /\ AtRest
    /\ input \in [command : Commands, current_dir : {"/home"}]
    /\ output = <<>>

\* one call of execute; the user, the file system and the process answer
Execute(confirm, exists, outcome) ==
    /\ pc = "t_ready"
    /\ output' = [confirm |-> confirm,
                  ret |-> execute(input.command, input.current_dir, confirm,
                                  exists, outcome)]
    /\ pc' = "t_done"
    /\ UNCHANGED <<input, restVars>>

TermNext ==
    \E confirm \in Confirmations, exists \in BOOLEAN, outcome \in ProcessOutcomes :
        Execute(confirm, exists, outcome)

TermSpec == TermInit /\ [][TermNext]_vars

---------------------------------------------------------------------------
TypeOK ==
    /\ pc \in {"idle", "confirm", "start", "entry", "loop", "analyze", "check",
               "final", "keep_open", "except", "respond"}
    /\ browser_executor \in {"None", "BrowserExecutor"}
    /\ is_initialized \in BOOLEAN
    /\ action_count \in 0..max_actions
    /\ Len(results) <= max_actions

---------------------------------------------------------------------------
(* Properties *)

\* the run has returned to process_request
Returned == pc = "respond"

\* C1: a goal run terminates, whatever the initial action list and the
\* oracle do, and executes at most max_actions + 1 actions in total.
C1_LoopTerminates ==
    /\ [](action_count <= max_actions + 1 /\ Len(executed_actions) <= max_actions + 1)
    /\ [](pc = "start" => <>Returned)

\* a run that executed actions up to the step limit and returned
C1_Witness ==
    /\ Returned
    /\ stop = LimitReached
    /\ Len(executed_actions) = max_actions

\* C2: execute_action never raises: every failure, also for an action_type
\* that is null or not a string, comes back as a result string.
C2_NeverRaises == ~exec_call.raised

\* C3: for every action kind, execute_action on a session that is not
\* initialized and whose initialize() fails returns the init-failure string,
\* does not raise and attempts no browser operation of the action.
C3_InitFailureResult ==
    (exec_call.action # NoAction
       /\ ~exec_call.was_initialized /\ ~exec_call.now_initialized)
    => /\ exec_call.result = InitFailure
       /\ ~exec_call.raised
       /\ ~exec_call.ops

\* execute_action was called with an action of a known kind that has its
\* target, the session did not start, and the caller got the init failure
C3_Witness ==
    /\ exec_call.action.action_type = "click"
    /\ exec_call.action.target # ""
    /\ ~exec_call.was_initialized /\ ~exec_call.now_initialized
    /\ exec_call.result = InitFailure

\* C4: a run in which the session could not be started returns the
\* init-failure report and records no action as executed, in every run of
\* the Agent.
C4_InitFailureEndsRun ==
    (Returned /\ ret # Cancelled /\ ~session_up)
    => (ret = InitFailure /\ executed_actions = <<>>)

\* the action type is not one execute_action knows
UnknownKind(action) ==
    \/ ~IsStr(action.action_type)
    \/ Lower(action.action_type) \notin KnownKinds

\* C5: an action of an unknown kind always yields the "unknown action type"
\* error string and never halts the loop.
C5_UnknownKindContinues ==
    (exec_call.action # NoAction /\ UnknownKind(exec_call.action))
    => /\ ~exec_call.raised
       /\ exec_call.result = UnknownActionType
       /\ pc # "except"

\* C6: when the capture at the head of a cycle fails the loop is left with
\* the capture-failed message, and from then on the run neither consults
\* the oracle nor executes an action.
C6_CaptureFailureAborts ==
    [][ /\ (pc = "loop" /\ LoopCondition(action_count) /\ pc' # "analyze")
           => (pc' = "final" /\ stop' = CaptureFailed)
        /\ (stop = CaptureFailed /\ pc # "idle")
           => /\ oracle_calls' = oracle_calls
              /\ executed_actions' = executed_actions
              /\ results' = results
              /\ exec_call' = exec_call
              /\ pc' \in {"keep_open", "respond", "idle"} ]_vars

\* a run that was left on a failed capture after its first action
C6_Witness ==
    /\ Returned
    /\ stop = CaptureFailed
    /\ Len(executed_actions) >= 1

\* the run ended early: on a failed capture, an exception or a session that
\* did not start
Aborted == stop = CaptureFailed \/ ret \in {InitFailure, ErrorReport}

\* C7: the final report tells a completed run from an aborted one: the
\* report of an aborted run is not the report of a completed run.
C7_ReportDistinguishes ==
    /\ (Returned /\ Aborted) => ret # Report
    /\ (pc = "idle" /\ Aborted) => response # Completed

\* C8: an exception raised in a cycle is caught at the loop boundary: the
\* session is asked to close when it is initialized, the run returns the
\* error report, and a failing close changes nothing of that.
C8_ExceptionContained ==
    /\ (Returned /\ exec_call.raised)
       => /\ ret = ErrorReport
          /\ close_calls = 1
          /\ final_captures = 0
    /\ (Returned /\ ret = ErrorReport) => exec_call.raised

\* an exception in a cycle was reported although the close failed too
C8_Witness ==
    /\ Returned
    /\ exec_call.raised
    /\ action_count > 1
    /\ is_initialized
    /\ ret = ErrorReport

C10_HeuristicSkipsAction ==
    /\ [](stop = GoalCompleted
            => /\ Len(executed_actions) = oracle_calls
               /\ Len(results) = oracle_calls
               /\ _check_goal_completion(executed_actions))
    /\ [][(pc = "check" /\ _check_goal_completion(executed_actions))
            => /\ executed_actions' = executed_actions
               /\ results' = results
               /\ exec_call' = exec_call
               /\ pc' = "final"]_vars

\* the heuristic ended a run in which the oracle had just suggested another
\* action, and the log holds the five actions executed before
C10_Witness ==
    /\ stop = GoalCompleted
    /\ next_action \in OracleActions
    /\ Len(executed_actions) = 5
    /\ pc = "final"

---------------------------------------------------------------------------
\* the positions of a list of executed actions that hold kind t
Positions(t, s) == {i \in 1..Len(s) : s[i].action_type = t}

\* the completion rule as stated: five actions or more, and either two clicks
\* with a final capture_state, or three scrolls and no click in the last three
GoalRule(s) ==
    /\ Len(s) >= 5
    /\ \/ /\ Cardinality(Positions("click", s)) >= 2
          /\ s[Len(s)].action_type = "capture_state"
       \/ /\ Cardinality(Positions("scroll", s)) >= 3
          /\ \A i \in Positions("click", s) : i <= Len(s) - 3

\* C11: for every list of executed action kinds, _check_goal_completion
\* returns true exactly when the list has at least 5 actions and either at
\* least two are click and the last is capture_state, or at least three are
\* scroll and none of the last three is click; it is false below 5 actions.
C11_HeuristicRule ==
    pc = "f_done" =>
        /\ output = GoalRule(input)
        /\ Len(input) < 5 => output = FALSE

\* the heuristic accepted a list of exactly five actions by its scroll rule,
\* the list holding a click outside the last three
C11_Witness ==
    /\ pc = "f_done"
    /\ output = TRUE
    /\ Len(input) = 5
    /\ Cardinality(Positions("scroll", input)) >= 3
    /\ Positions("click", input) # {}

---------------------------------------------------------------------------
\* the oracle produced no usable suggestion: the call raised, the reply was
\* not JSON, or the reply has no action_type key
OracleUnusable(oracle) ==
    \/ oracle.kind \in {"raise", "unparseable"}
    \/ oracle.action_type = Absent

\* the action is scroll down by 500 px to the executor
ScrollsDown500(action) ==
    /\ action.action_type = "scroll"
    /\ EffectiveScrollOf(action) = DefaultScroll

\* the session is up and the page could be captured in the consultation
Consultable ==
    /\ is_initialized
    /\ input.page_ok

FallbackTags ==
    {FallbackAction.description, FallbackAfterParseError.description,
     FallbackAfterException.description,
     "Scroll down to see more content (fallback after error)"}

\* C13: every fallback action substituted by the oracle adapter (after
\* oracle failure, timeout, unparseable reply, or a reply missing a
\* recognizable action kind) is tagged as a fallback.
C13_FallbackTagged ==
    (pc = "a_done" /\ ~output.none /\ OracleUnusable(input.oracle))
        => output.action.description \in FallbackTags

---------------------------------------------------------------------------
\* the last call of execute_action ran an action of kind t on a session that
\* was up, and returned
Executed(t) ==
    /\ pc \in {"x_idle", "x_ready"}
    /\ IsStr(exec_call.action.action_type)
    /\ Lower(exec_call.action.action_type) = t
    /\ exec_call.now_initialized
    /\ ~exec_call.raised

\* the kinds that drive the page
DrivingKinds == {"navigate", "click", "input", "scroll", "search"}

\* a browser operation of the last call failed
SomeOpFailed == \E i \in 1..Len(ops) : ~ops[i].ok

\* the result strings that describe a failure
FailureResults == ErrorResults \cup {InitFailure}

\* C14: for every action kind that drives the page (navigate, click, input,
\* scroll, search), when the underlying browser operation fails, the result
\* string returned by execute_action describes the failure; a success
\* message is returned only when the operation succeeded.
C14_FailureDescribed ==
    \A t \in DrivingKinds :
        (Executed(t) /\ SomeOpFailed) => exec_call.result \in FailureResults

\* C15: a Click action locates its target through the ordered chain exact
\* selector, site-specific selectors, generic role/tag selectors,
\* text-content match: a later stage is attempted exactly when every earlier
\* stage failed, and the first stage that finds a visible match ends the
\* chain.
C15_ClickChain ==
    (Executed("click") /\ ops # <<>>) =>
        \A i \in 1..Len(ops) : (i < Len(ops)) <=> ~ops[i].ok

\* C16: a Search action positions the browser before filling the search
\* box: with a target website it navigates to that website first;
\* otherwise, on a recognized search-engine domain, it performs no
\* navigation; otherwise it navigates to the default search engine. The
\* search-box fill happens only after this positioning step.
C16_SearchPositioning ==
    Executed("search") =>
        LET n == Len(ops)
            website == exec_call.action.target = "website"
        IN /\ n >= 1
           /\ ops[n].op = "search"
           /\ \A i \in 1..(n - 1) : ops[i].op = "goto"
           /\ website => (n = 2 /\ ops[1].arg = "website")
           /\ (~website /\ ops[1].at \in SearchEngines) => n = 1
           /\ (~website /\ ops[1].at \notin SearchEngines)
                 => (n = 2 /\ ops[1].arg = "google")

\* a search without website on a search-engine page filled the search box
\* without navigating
C16_Witness ==
    /\ Executed("search")
    /\ exec_call.action.target = ""
    /\ Len(ops) = 1
    /\ ops[1].op = "search"
    /\ ops[1].at \in SearchEngines

\* C17: at most one live browser session exists per Agent at any time,
\* across any sequence of runs, initialization failures (also part-way
\* through initialize), closes and keep-open choices.
C17_OneLiveSession ==
    live_browsers <= 1

---------------------------------------------------------------------------
\* the kinds of the actions of a list
KindsOf(actions) == {actions[i].action_type : i \in 1..Len(actions)}

\* C18: when the request mentions a known site, the initial action list is a
\* single Navigate action to that site's configured URL, whatever the
\* Planner replied, and no Search action is produced.
C18_DirectMention ==
    (pc = "r_done" /\ input.mentions # {}) =>
        /\ ~output.raised
        /\ Len(output.browser_actions) = 1
        /\ output.browser_actions[1].action_type = "navigate"
        /\ \E site \in input.mentions :
              output.browser_actions[1].target = SiteUrl(site)
        /\ "search" \notin KindsOf(output.browser_actions)
        /\ Len(output.commands) = 1

\* the request mentions zillow, the Planner replied with a search action,
\* and the action list is the navigation to zillow
C18_Witness ==
    /\ pc = "r_done"
    /\ input.mentions = {"zillow"}
    /\ input.reply.browser_action.action_type = "search"
    /\ output.browser_actions = << Act("navigate", SiteUrl("zillow"), "direct") >>

\* the well-formed actions of a browser_action list
WellFormed(items) ==
    {i \in 1..Len(items) :
        items[i].json = "object" /\ items[i].action_type # Absent}

\* _extract_commands was called on a dict reply
ExtractedDict ==
    /\ pc = "r_done"
    /\ input.mentions = {}
    /\ input.reply.kind = "dict"

\* C19: for a structured Planner reply, _extract_commands accepts
\* browser_action given as a single action (one command) or as a list (one
\* command per well-formed action of the list), treats every malformed or
\* absent browser_action / terminal_commands field as no commands, returns a
\* command list and never raises.
C19_ExtractNeverRaises ==
    ExtractedDict =>
        /\ ~output.extracted.raised
        /\ input.reply.browser_action.json = "array" =>
              Len(_extract_browser_actions(output.extracted.commands))
                 = Cardinality(WellFormed(input.reply.browser_action.items))

\* C20: when the Planner's reply yields no recognizable action for a
\* browser request, process_request recovers by producing a generic Search
\* action whose query is derived from the original request.
C20_ParseFailureSearch ==
    (/\ pc = "r_done"
     /\ input.browser_request
     /\ input.mentions = {}
     /\ ~output.raised
     /\ output.extracted.commands = <<>>)
    => /\ Len(output.browser_actions) = 1
       /\ output.browser_actions[1].action_type = "search"

---------------------------------------------------------------------------
\* the targeting fields execute_action reads from an action, with its
\* defaults (browser_executor.py:1322-1324, 1346-1348, 1424-1425, 1438)
Targeting(action) ==
    [selector |-> IF action.selector \in {NoStr, <<>>} THEN NoStr ELSE action.selector,
     selector_type |-> IF action.selector \in {NoStr, <<>>} THEN NoStr
                       ELSE GetStr(action.selector_type, <<"css">>),
     text |-> IF action.text \in {NoStr, <<>>} THEN NoStr ELSE action.text,
     value |-> GetStr(action.value, <<>>),
     url |-> GetStr(action.url, <<>>),
     direction |-> IF action.action_type = <<"scroll">>
                   THEN GetStr(action.direction, <<"down">>) ELSE NoStr,
     distance |-> IF action.action_type = <<"scroll">>
                  THEN GetNum(action.distance, 500) ELSE NoNum,
     duration |-> IF action.action_type = <<"wait">>
                  THEN GetNum(action.duration, 2) ELSE NoNum]

\* the same kind and equivalent targeting fields
Equivalent(a, b) ==
    /\ a.action_type = b.action_type
    /\ Targeting(a) = Targeting(b)

\* C21: for every Action, serializing it to the JSON action schema and
\* parsing it back with the conversion of get_ai_page_analysis yields an
\* equivalent Action (same kind, equivalent targeting fields); so every
\* Action is the conversion of some reply of the schema.
C21_RoundTrip ==
    pc = "n_ready" =>
        \E reply \in SchemaReplies :
            Equivalent(converted_action(reply), input)

---------------------------------------------------------------------------
\* C22: every action that reaches the executor from the oracle adapter
\* carries exactly one kind tag out of navigate, click, input, scroll, wait,
\* search, capture_state; a reply with an unknown or missing kind yields no
\* action and is never turned into an action of another kind.
C22_OneKnownKind ==
    (pc = "a_done" /\ input.oracle.kind = "reply")
        => IF input.oracle.action_type \in KnownKinds
           THEN output.none \/ output.action.action_type = input.oracle.action_type
           ELSE output.none

---------------------------------------------------------------------------
\* the words that instruct rather than describe what to search
InstructionalWords ==
    {"i'll", "let", "let's", "first", "then", "next", "finally", "help",
     "please", "could", "will", "search", "find", "looking"}

\* the query holds an instructional phrase
Instructional(query) ==
    \E i \in 1..Len(query) : LowerWord(query[i]) \in InstructionalWords

\* phrase is a run of consecutive words of the query
HasRun(query, phrase) ==
    \E i \in 0..(Len(query) - Len(phrase)) :
        \A j \in 1..Len(phrase) : query[i + j] = phrase[j]

\* C23: for every query of at most 10 words that contains no instructional
\* phrase, _clean_search_query returns the query exactly as given.
C23_CleanQueryUnchanged ==
    (pc = "c_done" /\ Len(input) <= 10 /\ ~Instructional(input))
        => output = input

\* C24: for the input "I'll search for rental apartments in New York under
\* $3000" the output contains "rental apartments", "New York" and "$3000"
\* and contains neither "I'll" nor "search for".
C24_PrefixRemoved ==
    (pc = "c_done" /\ input = SpecExample) =>
        /\ HasRun(output, << "rental", "apartments" >>)
        /\ HasRun(output, << "New", "York" >>)
        /\ HasRun(output, << "$3000" >>)
        /\ ~HasRun(output, << "I'll" >>)
        /\ ~HasRun(output, << "search", "for" >>)

---------------------------------------------------------------------------
\* the command starts with a destructive prefix of the deny-list, directly
\* or behind sudo
Denied(command) ==
    LowerText(command.head) \in
        {"rm", "rmdir", "format", "shutdown", "dd", ":(){:|:&};:"}

---------------------------------------------------------------------------
\* a step of the run in which an action is handed to the executor
Executes == action_count' = action_count + 1

\* C26: within every cycle the steps occur in the order capture, oracle,
\* heuristic, execute: the oracle is consulted only after a successful
\* capture, an action is executed in a cycle only if in that cycle the
\* capture succeeded, the oracle returned a usable action and the heuristic
\* is not satisfied, and when the oracle yields nothing usable the run
\* completes with no further action executed.
C26_CycleOrder ==
    [][/\ (pc # "idle" /\ oracle_calls' # oracle_calls) => pc = "analyze"
       /\ pc' = "analyze" =>
             (pc = "loop" /\ is_initialized' /\ stop' # CaptureFailed)
       /\ pc' = "check" => (pc = "analyze" /\ next_action' # NoAction)
       /\ (pc # "entry" /\ Executes) =>
             /\ pc = "check"
             /\ ~_check_goal_completion(executed_actions)
             /\ exec_call'.action = next_action
       /\ (pc = "analyze" /\ pc' # "check") =>
             (pc' = "final" /\ stop' = NoSuggestion)
       /\ (pc # "idle" /\ stop = NoSuggestion) =>
             /\ pc \in {"final", "keep_open", "respond"}
             /\ action_count' = action_count
             /\ executed_actions' = executed_actions
             /\ exec_call' = exec_call]_vars

\* a run in which a cycle executed an action and the oracle of a later
\* cycle yielded nothing
C26_Witness ==
    /\ pc = "final"
    /\ stop = NoSuggestion
    /\ oracle_calls >= 2
    /\ action_count >= 2

\* C27: the log of executed actions and the list of results are append-only
\* and in step: after the entry step and after every cycle the number of
\* logged actions equals the number of results equals the action counter,
\* every executed action is appended to the log once, in execution order,
\* and the counter never exceeds 20.
C27_LogInStep ==
    /\ [](/\ action_count <= 20
          /\ Len(results) = Len(executed_actions)
          /\ (pc \in {"loop", "analyze", "check", "final", "keep_open"})
                => action_count = Len(executed_actions))
    /\ [][pc # "idle" =>
            \/ /\ executed_actions' = executed_actions
               /\ results' = results
               /\ (action_count' = action_count \/ pc' = "except")
            \/ /\ executed_actions' = Append(executed_actions, exec_call'.action)
               /\ results' = Append(results, exec_call'.result)
               /\ action_count' = Len(executed_actions')]_vars

\* the counter reached the limit of 20 with twenty actions logged
C27_Witness ==
    /\ pc = "final"
    /\ stop = LimitReached
    /\ action_count = 20
    /\ Len(executed_actions) = 20
    /\ Len(results) = 20

---------------------------------------------------------------------------
\* the positions of the selectors the page shows a visible element for
Hits == {i \in 1..Len(search_selectors) : search_selectors[i] \in input.visible}

\* the first of them
FirstHit == CHOOSE i \in Hits : \A j \in Hits : i <= j

\* the first n steps are probes of the first n common selectors, in the
\* order of the list, each with the short timeout, and only the last may
\* have found its element
ProbesInOrder(trace, n, last_ok) ==
    /\ Len(trace) >= n
    /\ \A i \in 1..n :
          /\ trace[i].op = "wait_for_selector"
          /\ trace[i].selector = search_selectors[i]
          /\ trace[i].timeout <= 1000
          /\ trace[i].ok = (last_ok /\ i = n)

\* C28: an input action without selector tries the common search-box
\* selectors in their fixed order, each with a short timeout; a selector
\* that is not found falls through to the next, the first one found visible
\* is filled and ends the chain, a failing Enter keypress afterwards does
\* not fail the action, and when none matches the result is an error string
\* and nothing is raised.
C28_SelectorChain ==
    pc = "i_done" =>
        /\ ~output.raised
        /\ IF Hits = {}
           THEN /\ ProbesInOrder(output.trace, Len(search_selectors), FALSE)
                /\ Len(output.trace) = Len(search_selectors)
                /\ output.result = NoSearchBox
           ELSE /\ ProbesInOrder(output.trace, FirstHit, TRUE)
                /\ Len(output.trace) = FirstHit + 2
                /\ output.trace[FirstHit + 1].op = "fill_input"
                /\ output.trace[FirstHit + 1].selector = search_selectors[FirstHit]
                /\ output.trace[FirstHit + 2].op = "press"
                /\ output.result = FilledSearchBox

\* the third selector of the list was the first found, a later one was
\* visible too, and the Enter keypress failed
C28_Witness ==
    /\ pc = "i_done"
    /\ Cardinality(Hits) = 2
    /\ FirstHit = 3
    /\ ~output.trace[5].ok
    /\ output.result = FilledSearchBox

\* C29: every action handed to execute_action with a ready session triggers
\* at least one best-effort screenshot attempt, whether the action succeeds
\* or fails, and the action is not aborted.
C29_ScreenshotAttempted ==
    (exec_call # NoCall /\ exec_call.was_initialized)
        => (exec_call.before_shot /\ ~exec_call.raised)

\* the browser operations that navigate, click or fill
DrivingOps == {"goto", "click", "click_element_by_text", "fill_input",
               "search", "scroll"}

\* the submitted action is a wait or a capture_state and the session is ready
PassiveOnReady ==
    /\ pc = "x_ready"
    /\ is_initialized
    /\ IsStr(next_action.action_type)
    /\ Lower(next_action.action_type) \in {"wait", "capture_state"}

\* C30: executing a wait or a capture_state action with a ready session
\* leaves the current URL and the session state unchanged: no navigation,
\* no click, no fill.
C30_PassiveActions ==
    [][PassiveOnReady =>
         /\ current_url' = current_url
         /\ is_initialized' = is_initialized
         /\ live_browsers' = live_browsers
         /\ \A i \in 1..Len(ops') : ops'[i].op \notin DrivingOps
         /\ exec_call'.result \in {"Waited", "Captured current page state"}]_vars

\* a wait was executed on a ready session that shows a site
C30_Witness ==
    /\ pc = "x_idle"
    /\ exec_call.action.action_type = "wait"
    /\ exec_call.was_initialized
    /\ exec_call.result = "Waited"
    /\ current_url = "site"
    /\ is_initialized

---------------------------------------------------------------------------
\* what the oracle adapter hands to the loop
FromAdapter(action) == action \in OracleActions

\* C31: of the initial action list only actions[0] is ever executed: every
\* later executed action of the run comes from the oracle adapter, and the
\* remaining actions of the initial plan are never passed to the executor.
C31_OnlyFirstPlanned ==
    /\ [](/\ Len(executed_actions) >= 1 => executed_actions[1] = browser_plan[1]
          /\ \A i \in 2..Len(executed_actions) :
                /\ FromAdapter(executed_actions[i])
                /\ \A j \in 2..Len(browser_plan) :
                      executed_actions[i] # browser_plan[j])
    /\ [][(pc # "idle" /\ exec_call' # exec_call) =>
            \/ pc = "entry" /\ exec_call'.action = browser_plan[1]
            \/ /\ pc = "check"
               /\ exec_call'.action = next_action
               /\ FromAdapter(next_action)]_vars

\* a run on a plan of two actions executed the first of them and then two
\* actions of the oracle
C31_Witness ==
    /\ pc = "final"
    /\ Len(browser_plan) = 2
    /\ Len(executed_actions) = 3
    /\ executed_actions[1] = browser_plan[1]

\* every oracle round trip of the run yielded a scroll
OnlyScrolls ==
    /\ \A i \in 2..Len(executed_actions) :
          executed_actions[i].action_type = "scroll"
    /\ next_action # NoAction => next_action.action_type = "scroll"

\* C32: if every oracle round trip of a run yields the fallback scroll (or
\* a scroll) and every capture succeeds, the run executes exactly 5 actions,
\* the initial action and 4 scrolls, and then completes through the
\* goal-completion heuristic, for every initial action.
C32_FallbackRunLength ==
    (/\ pc = "respond"
     /\ ret \notin {Cancelled, InitFailure}
     /\ stop \notin {CaptureFailed, NoSuggestion}
     /\ OnlyScrolls)
        => (Len(executed_actions) = 5 /\ stop = GoalCompleted)

---------------------------------------------------------------------------
\* the positions of a run behind the plan confirmation
RunPositions == {"start", "entry", "loop", "analyze", "check", "final",
                 "keep_open", "except"}

\* the executor and what it has done
ExecutorState == <<browser_executor, is_initialized, exec_call, results,
                   executed_actions, action_count, session_up>>

\* C33: no browser action is executed and no browser session is started for
\* a request unless the user answered y to the plan confirmation of that
\* request; on any other answer the run is cancelled with the executor
\* state unchanged.
C33_ConfirmationGates ==
    /\ [](pc \in RunPositions => confirmation = "y")
    /\ []((pc # "confirm" /\ confirmation # "y") =>
            /\ exec_call = NoCall
            /\ executed_actions = <<>>
            /\ session_up = is_initialized)
    /\ [][(pc = "confirm" /\ confirmation' # "y") =>
            /\ ret' = Cancelled
            /\ pc' = "respond"
            /\ ExecutorState' = ExecutorState]_vars
    /\ [][(pc # "idle" /\ (exec_call' # exec_call \/ (is_initialized' /\ ~is_initialized)))
            => confirmation = "y"]_vars

\* the plan of a second request was declined while the session of the
\* first was still open
C33_Witness ==
    /\ pc = "respond"
    /\ confirmation = "n"
    /\ ret = Cancelled
    /\ is_initialized
    /\ exec_call = NoCall

\* C34: process_request returns a response saying the browser automation
\* was completed only if the browser plan of that request was actually
\* executed: not when the user cancelled the plan, the session failed to
\* start, or the run ended with an error.
C34_CompletedOnlyIfExecuted ==
    (pc = "idle" /\ response = Completed)
        => ret \notin {Cancelled, InitFailure, ErrorReport}

\* C35: after close() returns the executor is no longer marked initialized,
\* also when a step of closing fails.
C35_ClosedAfterClose ==
    (pc = "respond" /\ close_calls > 0) => ~is_initialized

---------------------------------------------------------------------------
\* the Planner's reply holds a terminal command
HoldsTerminalCommand ==
    \E i \in 1..Len(output.commands) : output.commands[i].type = "terminal"

====
